---- MODULE Spec2Model ----
(***************************************************************************)
(* A model of lib/isc/unix/socket.c: the socket manager, its watcher       *)
(* thread, the per-socket request queues and the internal event handlers   *)
(* that run on the task scheduler.                                         *)
(*                                                                         *)
(* Granularity.  Every API call and every internal_* handler holds the     *)
(* socket lock from its first read to its last write of the socket, so     *)
(* each is one action.  The watcher holds the manager lock from the return *)
(* of select() to the next call of select(); inside that span it takes one *)
(* socket lock per control message and one per descriptor scanned, so each *)
(* of those is one action.  destroy() runs after the socket lock was       *)
(* dropped and needs the manager lock, so it is an action of its own.      *)
(* The kernel (recvmsg, sendmsg, connect, accept, select readiness) is an  *)
(* input chosen with \E.  The task scheduler is external: a task is a FIFO *)
(* of the events sent to it.                                               *)
(***************************************************************************)
EXTENDS Integers, Sequences, FiniteSets, TLC

(* ------------------------------ bounds -------------------------------- *)
\* socket objects the memory context can hand out in one behaviour
MaxSock == 3
\* descriptors the kernel can have open for sockets at one time
MaxFd == 2
\* tasks of the external scheduler
NTask == 2
\* requests (recv, send, marker, accept, connect) posted in one behaviour
MaxReq == 3
\* integers the control pipe holds before a writer has to wait
MaxPipe == 2
\* requests posted in one behaviour of the scenarios in which tasks cancel
\* or sockets come and go
MaxBusy == 2
\* longest region of a recv or send request
MaxLen == 2
\* external attachments one socket can have at a time
MaxRef == 2
\* times the kernel reports one descriptor ready while its internal event
\* is still sitting in a task queue
MaxDup == 2

(* ------------------------- program constants --------------------------- *)
CLOSED == 0
MANAGED == 1
CLOSE_PENDING == 2

DOIO_SUCCESS == 0
DOIO_SOFT == 1
DOIO_HARD == 2
DOIO_EOF == 3

SELECT_POKE_SHUTDOWN == -1
SELECT_POKE_NOTHING == -2

\* a null pointer (a task, an event, a socket)
NULL == 0
\* the sender isc_event_allocate() stores when it is handed the socket
\* itself: a pointer that is no task
SockAsSender == -1
\* what manager->fds[FD_SETSIZE - 1] reads as once a store to fdstate[-1]
\* has landed in it: a pointer that is neither null nor a socket
Clobbered == -2

Socks == 1..MaxSock
Tasks == 1..NTask
\* manager->pipe_fds: the read and the write end of the control pipe
pipe_fds == <<0, 1>>
SockFds == (pipe_fds[2] + 1)..(pipe_fds[2] + MaxFd)
\* the size of the manager's tables: the last descriptor, FD_SETSIZE - 1, is
\* one the kernel of the model never hands out
FD_SETSIZE == pipe_fds[2] + MaxFd + 2
FDs == 0..(FD_SETSIZE - 1)

Min(a, b) == IF a < b THEN a ELSE b

\* ISC_LIST_DEQUEUE / ISC_LIST_UNLINK of the event with this id
Unlink(list, id) == SelectSeq(list, LAMBDA e : e.id # id)
\* ISC_LINK_LINKED
Linked(list, id) == \E i \in DOMAIN list : list[i].id = id
\* a write through the pointer to an event that sits in a list
Store(list, dev) == [i \in DOMAIN list |-> IF list[i].id = dev.id THEN dev ELSE list[i]]

(* ------------------------------ errno ---------------------------------- *)
\* the errno values the code tells apart; EIO stands for every errno it has
\* no case for
SOFT_ERROR(e) == e \in {"EAGAIN", "EWOULDBLOCK", "EINTR", "0"}

\* what recvmsg()/sendmsg() can answer: an errno (cc = -1), or "OK" with
\* `avail` bytes waiting in (room left in) the kernel's buffer
IoErrnos == {"EAGAIN", "ECONNREFUSED", "ENOBUFS", "EIO"}
IoOutcomes == [errno : IoErrnos, avail : {0}] \cup [errno : {"OK"}, avail : 0..MaxLen]

(* ----------------------------- the socket ------------------------------ *)
\* allocate_socket(): the fields of a fresh isc_socket_t
allocate_socket(type) ==
    [magic |-> TRUE, type |-> type, references |-> 0, fd |-> -1,
     recv_result |-> "SUCCESS", send_result |-> "SUCCESS",
     recv_list |-> <<>>, send_list |-> <<>>, accept_list |-> <<>>,
     connect_ev |-> <<>>,
     pending_recv |-> FALSE, pending_send |-> FALSE, pending_accept |-> FALSE,
     listener |-> FALSE, connected |-> FALSE, connecting |-> FALSE,
     rev_action |-> "none", wev_action |-> "none"]

\* memory that holds no socket: never allocated, or freed by free_socket()
NoSock == [allocate_socket("tcp") EXCEPT !.magic = FALSE]

VALID_SOCKET(S) == S.magic
SOCK_DEAD(S) == S.references = 0
EMPTY(list) == list = <<>>

\* allocate_socketevent(): sender is the socket until the caller stores a task
allocate_socketevent(id, eventtype) ==
    [id |-> id, type |-> eventtype, sender |-> SockAsSender,
     n |-> 0, length |-> 0, minimum |-> 0, attached |-> FALSE]

\* the completion event as the task scheduler receives it: `to` is the task
\* it was sent to, `detach` tells isc_task_sendanddetach from isc_task_send
Done(dev, result, to, detach) ==
    [id |-> dev.id, result |-> result, to |-> to, detach |-> detach]

send_recvdone_event(S, dev, resultcode) ==
    [S |-> [S EXCEPT !.recv_list = Unlink(@, dev.id)],
     ev |-> <<Done(dev, resultcode, dev.sender, dev.attached)>>]

send_senddone_event(S, dev, resultcode) ==
    [S |-> [S EXCEPT !.send_list = Unlink(@, dev.id)],
     ev |-> <<Done(dev, resultcode, dev.sender, dev.attached)>>]

\* the three errno values SOFT_OR_HARD() maps
SohResult(e) ==
    CASE e = "ECONNREFUSED" -> "CONNREFUSED"
      [] e = "ENETUNREACH" -> "NETUNREACH"
      [] e = "EHOSTUNREACH" -> "HOSTUNREACH"
      [] OTHER -> "SUCCESS"

\* fault injection: every read that brought something counts as enough
short_read_never(cc, read_count, dev) == FALSE

\* doio_recv: "if we read less than we expected" and the minimum is not
\* reached, the request waits for more
short_read(cc, read_count, dev) == cc # read_count /\ dev.n < dev.minimum

doio_recv(S, dev, o) ==
    LET read_count == dev.length - dev.n
        cc == IF o.errno = "OK" THEN Min(o.avail, read_count) ELSE -1
        nodev == [S |-> S, dev |-> dev, ev |-> <<>>]
    IN  IF cc < 0 THEN
            IF SOFT_ERROR(o.errno) THEN nodev @@ [ret |-> DOIO_SOFT]
            ELSE IF SohResult(o.errno) # "SUCCESS" THEN
                IF S.connected THEN
                    LET S1 == IF S.type = "tcp"
                              THEN [S EXCEPT !.recv_result = SohResult(o.errno)]
                              ELSE S
                        r == send_recvdone_event(S1, dev, SohResult(o.errno))
                    IN  [S |-> r.S, dev |-> dev, ev |-> r.ev, ret |-> DOIO_HARD]
                ELSE nodev @@ [ret |-> DOIO_SOFT]
            ELSE IF o.errno = "ENOBUFS" THEN
                LET r == send_recvdone_event(S, dev, "NORESOURCES")
                IN  [S |-> r.S, dev |-> dev, ev |-> r.ev, ret |-> DOIO_HARD]
            ELSE
                LET r == send_recvdone_event([S EXCEPT !.recv_result = "UNEXPECTED"],
                                             dev, "UNEXPECTED")
                IN  [S |-> r.S, dev |-> dev, ev |-> r.ev, ret |-> DOIO_SUCCESS]
        ELSE IF S.type = "tcp" /\ cc = 0 THEN
            [S |-> [S EXCEPT !.recv_result = "EOF"], dev |-> dev, ev |-> <<>>,
             ret |-> DOIO_EOF]
        ELSE
            LET dev1 == [dev EXCEPT !.n = @ + cc]
            IN  IF short_read(cc, read_count, dev1) THEN
                    [S |-> [S EXCEPT !.recv_list = Store(@, dev1)], dev |-> dev1,
                     ev |-> <<>>, ret |-> DOIO_SOFT]
                ELSE
                    LET r == send_recvdone_event(S, dev1, "SUCCESS")
                    IN  [S |-> r.S, dev |-> dev1, ev |-> r.ev, ret |-> DOIO_SUCCESS]

\* fault injection: whatever sendmsg() took counts as the whole payload
short_write_never(cc, write_count) == FALSE

\* doio_send: "if we write less than we expected", the request waits
short_write(cc, write_count) == cc # write_count

doio_send(S, dev, o) ==
    LET write_count == dev.length - dev.n
        cc == IF o.errno = "OK" THEN Min(o.avail, write_count) ELSE -1
        nodev == [S |-> S, dev |-> dev, ev |-> <<>>]
    IN  IF cc < 0 THEN
            IF SOFT_ERROR(o.errno) THEN nodev @@ [ret |-> DOIO_SOFT]
            ELSE IF SohResult(o.errno) # "SUCCESS" THEN
                IF S.connected THEN
                    LET S1 == IF S.type = "tcp"
                              THEN [S EXCEPT !.send_result = SohResult(o.errno)]
                              ELSE S
                        r == send_senddone_event(S1, dev, SohResult(o.errno))
                    IN  [S |-> r.S, dev |-> dev, ev |-> r.ev, ret |-> DOIO_HARD]
                ELSE nodev @@ [ret |-> DOIO_SOFT]
            ELSE IF o.errno = "ENOBUFS" THEN
                LET r == send_senddone_event(S, dev, "NORESOURCES")
                IN  [S |-> r.S, dev |-> dev, ev |-> r.ev, ret |-> DOIO_HARD]
            ELSE
                LET r == send_senddone_event([S EXCEPT !.send_result = "UNEXPECTED"],
                                             dev, "UNEXPECTED")
                IN  [S |-> r.S, dev |-> dev, ev |-> r.ev, ret |-> DOIO_HARD]
        ELSE
            LET dev1 == [dev EXCEPT !.n = @ + cc]
            IN  IF short_write(cc, write_count) THEN
                    [S |-> [S EXCEPT !.send_list = Store(@, dev1)], dev |-> dev1,
                     ev |-> <<>>, ret |-> DOIO_SOFT]
                ELSE
                    LET r == send_senddone_event(S, dev1, "SUCCESS")
                    IN  [S |-> r.S, dev |-> dev1, ev |-> r.ev, ret |-> DOIO_SUCCESS]

(* --------------------------- posting calls ----------------------------- *)
\* The result of a call is a record: S the socket as the call leaves it, ev
\* the completion events it sent (in order), poke whether it wrote the fd to
\* the control pipe, io the requests a kernel I/O call was made for.

\* fault injection: isc_socket_recv without its test of sock->recv_result
recv_ignoring_recv_result(S, id, task, length, minimum, o) ==
    LET dev == [allocate_socketevent(id, "RECVDONE") EXCEPT
                    !.minimum = IF S.type = "udp" THEN 1
                                ELSE IF minimum = 0 THEN length ELSE minimum,
                    !.length = length, !.sender = task]
        r == doio_recv(S, dev, o)
    IN  IF ~EMPTY(S.recv_list) \/ r.ret = DOIO_SOFT
        THEN [S |-> [S EXCEPT !.recv_list = Append(@, [dev EXCEPT !.attached = TRUE])],
              ev |-> <<>>, poke |-> EMPTY(S.recv_list), io |-> {}]
        ELSE IF r.ret = DOIO_EOF
        THEN send_recvdone_event(r.S, dev, "EOF") @@ [poke |-> FALSE, io |-> {id}]
        ELSE [S |-> r.S, ev |-> r.ev, poke |-> FALSE, io |-> {id}]

\* isc_socket_recv and isc_socket_recvv (same control flow; the region or the
\* buffer list has `length` bytes of room)
isc_socket_recv(S, id, task, length, minimum, o) ==
    LET dev == [allocate_socketevent(id, "RECVDONE") EXCEPT
                    !.minimum = IF S.type = "udp" THEN 1
                                ELSE IF minimum = 0 THEN length ELSE minimum,
                    !.length = length, !.sender = task]
        was_empty == EMPTY(S.recv_list)
        queue(S1, d) ==
            [S |-> [S1 EXCEPT !.recv_list = Append(@, [d EXCEPT !.attached = TRUE])],
             ev |-> <<>>, poke |-> was_empty]
    IN  IF ~was_empty THEN queue(S, dev) @@ [io |-> {}]
        ELSE IF S.recv_result # "SUCCESS" THEN
            send_recvdone_event(S, dev, S.recv_result) @@ [poke |-> FALSE, io |-> {}]
        ELSE
            LET r == doio_recv(S, dev, o)
            IN  CASE r.ret = DOIO_SOFT -> queue(r.S, r.dev) @@ [io |-> {id}]
                  [] r.ret = DOIO_EOF ->
                        send_recvdone_event(r.S, dev, "EOF") @@ [poke |-> FALSE, io |-> {id}]
                  [] OTHER -> [S |-> r.S, ev |-> r.ev, poke |-> FALSE, io |-> {id}]

\* isc_socket_send, isc_socket_sendto, isc_socket_sendv, isc_socket_sendtov
isc_socket_sendto(S, id, task, length, o) ==
    LET dev == [allocate_socketevent(id, "SENDDONE") EXCEPT
                    !.length = length, !.sender = task]
        was_empty == EMPTY(S.send_list)
        queue(S1, d) ==
            [S |-> [S1 EXCEPT !.send_list = Append(@, [d EXCEPT !.attached = TRUE])],
             ev |-> <<>>, poke |-> was_empty]
    IN  IF ~was_empty THEN queue(S, dev) @@ [io |-> {}]
        ELSE IF S.send_result # "SUCCESS" THEN
            send_senddone_event(S, dev, S.send_result) @@ [poke |-> FALSE, io |-> {}]
        ELSE
            LET r == doio_send(S, dev, o)
            IN  CASE r.ret = DOIO_SOFT -> queue(r.S, r.dev) @@ [io |-> {id}]
                  [] OTHER -> [S |-> r.S, ev |-> r.ev, poke |-> FALSE, io |-> {id}]

\* fault injection: a marker that never waits behind the requests queued
\* before it
recvmark_never_queues(S, id, task) ==
    send_recvdone_event(S, allocate_socketevent(id, "RECVMARK"), S.recv_result)
        @@ [poke |-> FALSE, io |-> {}]

isc_socket_recvmark(S, id, task) ==
    LET dev == allocate_socketevent(id, "RECVMARK")
    IN  IF EMPTY(S.recv_list) THEN
            send_recvdone_event(S, dev, S.recv_result) @@ [poke |-> FALSE, io |-> {}]
        ELSE
            [S |-> [S EXCEPT !.recv_list = Append(@, [dev EXCEPT !.sender = task])],
             ev |-> <<>>, poke |-> FALSE, io |-> {}]

isc_socket_sendmark(S, id, task) ==
    LET dev == allocate_socketevent(id, "SENDMARK")
    IN  IF EMPTY(S.send_list) THEN
            send_senddone_event(S, dev, S.send_result) @@ [poke |-> FALSE, io |-> {}]
        ELSE
            [S |-> [S EXCEPT !.send_list = Append(@, [dev EXCEPT !.sender = task])],
             ev |-> <<>>, poke |-> FALSE, io |-> {}]

\* isc_socket_accept: nsock is the socket allocate_socket() returned
isc_socket_accept(S, id, task, nsock) ==
    LET dev == [id |-> id, type |-> "NEWCONN", sender |-> task, n |-> 0,
                newsocket |-> nsock]
    IN  [S |-> [S EXCEPT !.accept_list = Append(@, dev)],
         ev |-> <<>>, poke |-> EMPTY(S.accept_list), io |-> {}]

\* what connect() can answer
ConnectErrnos == {"0", "EINPROGRESS", "EAGAIN", "ECONNREFUSED", "ENETUNREACH", "EIO"}

\* isc_socket_connect: ret is the value returned to the caller
isc_socket_connect(S, id, task, e) ==
    LET dev == [id |-> id, type |-> "CONNECT", sender |-> SockAsSender, n |-> 0]
        none == [poke |-> FALSE, io |-> {}]
    IN  IF e # "0" THEN
            IF SOFT_ERROR(e) \/ e = "EINPROGRESS" THEN
                [S |-> [S EXCEPT !.connecting = TRUE,
                                 !.connect_ev = <<[dev EXCEPT !.sender = task]>>],
                 ev |-> <<>>, poke |-> S.connect_ev = <<>>, io |-> {},
                 ret |-> "SUCCESS"]
            ELSE IF e \in {"ECONNREFUSED", "ENETUNREACH"} THEN
                [S |-> [S EXCEPT !.connected = FALSE],
                 ev |-> <<Done(dev, SohResult(e), task, FALSE)>>,
                 ret |-> "SUCCESS"] @@ none
            ELSE
                [S |-> [S EXCEPT !.connected = FALSE], ev |-> <<>>,
                 ret |-> "UNEXPECTED"] @@ none
        ELSE
            [S |-> [S EXCEPT !.connected = TRUE],
             ev |-> <<Done(dev, "SUCCESS", task, FALSE)>>,
             ret |-> "SUCCESS"] @@ none

(* ------------------------------ cancel --------------------------------- *)
CancelKinds == {"RECV", "SEND", "ACCEPT", "CONNECT"}

\* the events of `list` isc_socket_cancel completes for `task`, in list order
CancelHits(list, task) ==
    SelectSeq(list, LAMBDA d : task = NULL \/ task = d.sender)

CancelEvents(list, task) ==
    [i \in DOMAIN CancelHits(list, task) |->
        Done(CancelHits(list, task)[i], "CANCELED", CancelHits(list, task)[i].sender,
             CancelHits(list, task)[i].attached)]

\* fault injection: isc_socket_cancel sends the events and dequeues nothing
CancelKeepAll(list, task) == list

CancelKeep(list, task) ==
    SelectSeq(list, LAMBDA d : ~(task = NULL \/ task = d.sender))

\* the connect part of isc_socket_cancel
cancel_connect(S, task, how) ==
    IF "CONNECT" \in how /\ S.connect_ev # <<>> THEN
        IF ~S.connecting THEN [S |-> S, ev |-> <<>>, abort |-> TRUE]
        ELSE
            LET S1 == [S EXCEPT !.connecting = FALSE]
                dev == S.connect_ev[1]
            IN  IF task = NULL \/ task = dev.sender THEN
                    [S |-> [S1 EXCEPT !.connect_ev = <<>>],
                     ev |-> <<Done(dev, "CANCELED", dev.sender, TRUE)>>,
                     abort |-> FALSE]
                ELSE [S |-> S1, ev |-> <<>>, abort |-> FALSE]
    ELSE [S |-> S, ev |-> <<>>, abort |-> FALSE]

\* isc_socket_cancel with how # 0: freed are the sockets of the accepts it
\* cancelled, which it hands to free_socket()
isc_socket_cancel(S, task, how) ==
    LET rhit == "RECV" \in how /\ ~EMPTY(S.recv_list)
        shit == "SEND" \in how /\ ~EMPTY(S.send_list)
        ahit == "ACCEPT" \in how /\ ~EMPTY(S.accept_list)
        aev == [i \in DOMAIN CancelHits(S.accept_list, task) |->
                   Done(CancelHits(S.accept_list, task)[i], "CANCELED",
                        CancelHits(S.accept_list, task)[i].sender, TRUE)]
        S1 == [S EXCEPT
                 !.recv_list = IF rhit THEN CancelKeep(@, task) ELSE @,
                 !.send_list = IF shit THEN CancelKeep(@, task) ELSE @,
                 !.accept_list = IF ahit THEN CancelKeep(@, task) ELSE @]
        c == cancel_connect(S1, task, how)
    IN  [S |-> c.S,
         ev |-> (IF rhit THEN CancelEvents(S.recv_list, task) ELSE <<>>)
                \o (IF shit THEN CancelEvents(S.send_list, task) ELSE <<>>)
                \o (IF ahit THEN aev ELSE <<>>)
                \o c.ev,
         freed |-> IF ahit
                   THEN {CancelHits(S.accept_list, task)[i].newsocket :
                            i \in DOMAIN CancelHits(S.accept_list, task)}
                   ELSE {},
         poke |-> TRUE, io |-> {}, abort |-> c.abort]

(* ------------------------ internal dispatch ---------------------------- *)
\* dispatch_*: S as the watcher leaves it, to the task the embedded event is
\* sent to, abort an INSIST that failed
\* fault injection: dispatch_read without sock->references++
dispatch_read_noref(S) ==
    IF EMPTY(S.recv_list) \/ S.pending_recv THEN [S |-> S, to |-> NULL, abort |-> TRUE]
    ELSE [S |-> [S EXCEPT !.pending_recv = TRUE, !.rev_action = "internal_recv"],
          to |-> Head(S.recv_list).sender, abort |-> FALSE]

dispatch_read(S) ==
    IF EMPTY(S.recv_list) \/ S.pending_recv THEN [S |-> S, to |-> NULL, abort |-> TRUE]
    ELSE [S |-> [S EXCEPT !.pending_recv = TRUE, !.references = @ + 1,
                          !.rev_action = "internal_recv"],
          to |-> Head(S.recv_list).sender, abort |-> FALSE]

dispatch_write(S) ==
    IF EMPTY(S.send_list) \/ S.pending_send THEN [S |-> S, to |-> NULL, abort |-> TRUE]
    ELSE [S |-> [S EXCEPT !.pending_send = TRUE, !.references = @ + 1,
                          !.wev_action = "internal_send"],
          to |-> Head(S.send_list).sender, abort |-> FALSE]

\* fault injection: dispatch_accept without sock->references++
dispatch_accept_noref(S) ==
    IF EMPTY(S.accept_list) \/ S.pending_accept THEN [S |-> S, to |-> NULL, abort |-> TRUE]
    ELSE [S |-> [S EXCEPT !.pending_accept = TRUE, !.rev_action = "internal_accept"],
          to |-> Head(S.accept_list).sender, abort |-> FALSE]

dispatch_accept(S) ==
    IF EMPTY(S.accept_list) \/ S.pending_accept THEN [S |-> S, to |-> NULL, abort |-> TRUE]
    ELSE [S |-> [S EXCEPT !.pending_accept = TRUE, !.references = @ + 1,
                          !.rev_action = "internal_accept"],
          to |-> Head(S.accept_list).sender, abort |-> FALSE]

dispatch_connect(S) ==
    IF S.connect_ev = <<>> \/ ~S.connecting THEN [S |-> S, to |-> NULL, abort |-> TRUE]
    ELSE [S |-> [S EXCEPT !.references = @ + 1, !.wev_action = "internal_connect"],
          to |-> S.connect_ev[1].sender, abort |-> FALSE]

(* ------------------------- internal handlers --------------------------- *)
\* fault injection: EOF completes the request that read it and no other
EofHeadOnly(list) ==
    [i \in 1..Min(1, Len(list)) |->
        [id |-> list[i].id, result |-> "EOF", to |-> list[i].sender,
         detach |-> list[i].attached]]

\* the "do ... while (dev != NULL)" of internal_recv after DOIO_EOF
EofCascade(list) ==
    [i \in DOMAIN list |-> Done(list[i], "EOF", list[i].sender, list[i].attached)]

\* the "while (dev != NULL)" loop of internal_recv; outs are the answers of
\* the successive recvmsg() calls
RECURSIVE recv_loop(_, _, _, _)
recv_loop(S, outs, ev, io) ==
    IF EMPTY(S.recv_list) THEN [S |-> S, ev |-> ev, io |-> io]
    ELSE
        LET dev == Head(S.recv_list)
        IN  IF dev.type = "RECVMARK" \/ S.recv_result # "SUCCESS" THEN
                LET r == send_recvdone_event(S, dev, S.recv_result)
                IN  recv_loop(r.S, outs, ev \o r.ev, io)
            ELSE
                LET r == doio_recv(S, dev, Head(outs))
                IN  CASE r.ret = DOIO_SOFT ->
                            [S |-> r.S, ev |-> ev, io |-> io \cup {dev.id}]
                      [] r.ret = DOIO_EOF ->
                            [S |-> [r.S EXCEPT !.recv_list = <<>>],
                             ev |-> ev \o EofCascade(r.S.recv_list),
                             io |-> io \cup {dev.id}]
                      [] OTHER ->
                            recv_loop(r.S, Tail(outs), ev \o r.ev, io \cup {dev.id})

\* the "while (dev != NULL)" loop of internal_send
RECURSIVE send_loop(_, _, _, _)
send_loop(S, outs, ev, io) ==
    IF EMPTY(S.send_list) THEN [S |-> S, ev |-> ev, io |-> io]
    ELSE
        LET dev == Head(S.send_list)
        IN  IF dev.type = "SENDMARK" \/ S.send_result # "SUCCESS" THEN
                LET r == send_senddone_event(S, dev, S.send_result)
                IN  send_loop(r.S, outs, ev \o r.ev, io)
            ELSE
                LET r == doio_send(S, dev, Head(outs))
                IN  CASE r.ret = DOIO_SOFT ->
                            [S |-> r.S, ev |-> ev, io |-> io \cup {dev.id}]
                      [] OTHER ->
                            send_loop(r.S, Tail(outs), ev \o r.ev, io \cup {dev.id})

\* A handler's result: S, ev, io, poke as for a call; abort an INSIST that
\* failed.  S.references = 0 on return means the handler goes on to destroy().
Quiet(S) == [S |-> S, ev |-> <<>>, io |-> {}, poke |-> FALSE]

internal_recv(S, outs) ==
    IF ~S.pending_recv \/ S.references = 0 THEN Quiet(S) @@ [abort |-> TRUE]
    ELSE
        LET S1 == [S EXCEPT !.pending_recv = FALSE, !.references = @ - 1]
        IN  IF S1.references = 0 THEN Quiet(S1) @@ [abort |-> FALSE]
            ELSE LET r == recv_loop(S1, outs, <<>>, {})
                 IN  r @@ [poke |-> ~EMPTY(r.S.recv_list), abort |-> FALSE]

internal_send(S, outs) ==
    IF ~S.pending_send \/ S.references = 0 THEN Quiet(S) @@ [abort |-> TRUE]
    ELSE
        LET S1 == [S EXCEPT !.pending_send = FALSE, !.references = @ - 1]
        IN  IF S1.references = 0 THEN Quiet(S1) @@ [abort |-> FALSE]
            ELSE LET r == send_loop(S1, outs, <<>>, {})
                 IN  r @@ [poke |-> ~EMPTY(r.S.send_list), abort |-> FALSE]

\* what accept() followed by make_nonblock() can answer: "0" both fine,
\* "ENONBLOCK" accept() fine and fcntl() failed, else the errno of accept()
AcceptErrnos == {"0", "EAGAIN", "EIO", "ENONBLOCK"}

\* internal_accept up to UNLOCK(&sock->lock); tail is what it still has to do
\* after the unlock: register the new descriptor and send the event
internal_accept(S, e) ==
    IF ~S.listener \/ ~S.pending_accept \/ S.references = 0
    THEN Quiet(S) @@ [abort |-> TRUE, tail |-> <<>>]
    ELSE
        LET S1 == [S EXCEPT !.pending_accept = FALSE, !.references = @ - 1]
        IN  IF S1.references = 0 \/ EMPTY(S1.accept_list)
            THEN Quiet(S1) @@ [abort |-> FALSE, tail |-> <<>>]
            ELSE IF SOFT_ERROR(e) /\ e # "0"
            THEN [Quiet(S1) EXCEPT !.poke = TRUE] @@ [abort |-> FALSE, tail |-> <<>>]
            ELSE
                LET dev == Head(S1.accept_list)
                    S2 == [S1 EXCEPT !.accept_list = Tail(@)]
                IN  [S |-> S2, ev |-> <<>>, io |-> {},
                     poke |-> ~EMPTY(S2.accept_list), abort |-> FALSE,
                     tail |-> <<[kind |-> "accept", dev |-> dev,
                                 opened |-> e \in {"0", "ENONBLOCK"},
                                 gotfd |-> e = "0",
                                 result |-> IF e = "0" THEN "SUCCESS" ELSE "UNEXPECTED"]>>]

\* what getsockopt(SO_ERROR) can answer in internal_connect
SoErrnos == {"0", "EINPROGRESS", "ETIMEDOUT", "ECONNREFUSED", "ENETUNREACH", "EIO"}

ConnectResult(e) ==
    CASE e = "0" -> "SUCCESS"
      [] e = "ETIMEDOUT" -> "TIMEDOUT"
      [] e = "ECONNREFUSED" -> "CONNREFUSED"
      [] e = "ENETUNREACH" -> "NETUNREACH"
      [] OTHER -> "UNEXPECTED"

\* internal_connect up to UNLOCK(&sock->lock); tail is the event it sends
\* after the unlock
internal_connect(S, e) ==
    IF S.references = 0 THEN Quiet(S) @@ [abort |-> TRUE, tail |-> <<>>]
    ELSE
        LET S1 == [S EXCEPT !.references = @ - 1]
        IN  IF S1.references = 0 THEN Quiet(S1) @@ [abort |-> FALSE, tail |-> <<>>]
            ELSE IF S1.connect_ev = <<>>
            THEN Quiet(S1) @@ [abort |-> S1.connecting, tail |-> <<>>]
            ELSE IF ~S1.connecting THEN Quiet(S1) @@ [abort |-> TRUE, tail |-> <<>>]
            ELSE IF e # "0" /\ (SOFT_ERROR(e) \/ e = "EINPROGRESS")
            THEN [Quiet(S1) EXCEPT !.poke = TRUE] @@ [abort |-> FALSE, tail |-> <<>>]
            ELSE
                [S |-> [S1 EXCEPT !.connecting = FALSE, !.connect_ev = <<>>],
                 ev |-> <<>>, io |-> {}, poke |-> FALSE, abort |-> FALSE,
                 tail |-> <<[kind |-> "connect", dev |-> S1.connect_ev[1],
                             opened |-> FALSE, gotfd |-> FALSE,
                             result |-> ConnectResult(e)]>>]

(* ------------------ the watcher's view of one socket ------------------- *)
\* fault injection: the watcher's read test without the pending bits
WatchReadUnlessEmpty(S) == ~(EMPTY(S.recv_list) /\ EMPTY(S.accept_list))

\* fault injection: the watcher's read test without the accept queue
WatchReadRecvOnly(S) == ~(EMPTY(S.recv_list) \/ S.pending_recv \/ S.pending_accept)

\* the two tests the watcher makes when it reads a descriptor from the pipe
WatchRead(S) ==
    ~((EMPTY(S.recv_list) /\ EMPTY(S.accept_list)) \/ S.pending_recv \/ S.pending_accept)

WatchWrite(S) ==
    ~((EMPTY(S.send_list) \/ S.pending_send) /\ ~S.connecting)

(* ------------------------------ manager -------------------------------- *)
PipeRd == pipe_fds[1]
PipeWr == pipe_fds[2]

\* isc_socketmgr_create(): the manager as the watcher thread finds it
isc_socketmgr_create ==
    [fds |-> [fd \in FDs |-> NULL], fdstate |-> [fd \in FDs |-> CLOSED],
     read_fds |-> {PipeRd}, write_fds |-> {}, nsockets |-> 0, maxfd |-> PipeRd,
     destroyer |-> "none"]

\* the registration isc_socket_create and internal_accept make under the
\* manager lock
Register(M, fd, s) ==
    [M EXCEPT !.fds[fd] = s, !.fdstate[fd] = MANAGED,
              !.maxfd = IF @ < fd THEN fd ELSE @,
              !.nsockets = @ + 1]

\* manager->nsockets-- on the unsigned counter.  The checker's integers end
\* below 2^32, so the counter is kept as its two's-complement reading: -1
\* stands for 4294967295, the value 0 - 1 wraps to.
DecNsockets(n) == n - 1

\* the manager part of destroy() for a socket with a descriptor
Unregister(M, fd) ==
    [M EXCEPT !.fds[fd] = NULL, !.fdstate[fd] = CLOSE_PENDING,
              !.nsockets = DecNsockets(@)]

\* the manager part of destroy() for a socket whose fd is -1: the stores to
\* fds[-1] and fdstate[-1] land in the members that lie before the two
\* arrays, the end of write_fds and the end of fds
UnregisterNoFd(M) ==
    [M EXCEPT !.write_fds = @ \ {FD_SETSIZE - 1}, !.fds[FD_SETSIZE - 1] = Clobbered,
              !.nsockets = DecNsockets(@)]

\* fault injection: a watcher that leaves a CLOSE_PENDING descriptor as it is
WatcherLeavesPending(M, fd) == M

\* the watcher closing a descriptor it found CLOSE_PENDING
WatcherClose(M, fd) ==
    [M EXCEPT !.fdstate[fd] = CLOSED, !.read_fds = @ \ {fd}, !.write_fds = @ \ {fd}]

\* the INSISTs of destroy() and of free_socket()
DestroyInsists(S) ==
    /\ EMPTY(S.accept_list) /\ EMPTY(S.recv_list) /\ EMPTY(S.send_list)
    /\ S.connect_ev = <<>>

FreeInsists(S) ==
    /\ S.references = 0 /\ VALID_SOCKET(S) /\ ~S.connecting
    /\ ~S.pending_recv /\ ~S.pending_send /\ ~S.pending_accept
    /\ EMPTY(S.recv_list) /\ EMPTY(S.send_list) /\ EMPTY(S.accept_list)

\* free_socket(): the memory keeps what was in it
free_socket(S) == [S EXCEPT !.magic = FALSE]

(* ------------------------------ watcher -------------------------------- *)
\* top of the watcher's loop: copy the sets, unlock, call select(); i is the
\* descriptor the scan that follows starts at, the first after the pipe's
Snapshot(M, W) ==
    [W EXCEPT !.pc = "select", !.readfds = M.read_fds, !.writefds = M.write_fds,
              !.maxfd = M.maxfd + 1, !.i = PipeWr + 1]

\* the watcher's handling of a MANAGED descriptor it read from the pipe
Rewatch(M, S) ==
    [M EXCEPT !.read_fds = IF WatchRead(S) THEN @ \cup {S.fd} ELSE @ \ {S.fd},
              !.write_fds = IF WatchWrite(S) THEN @ \cup {S.fd} ELSE @ \ {S.fd}]

\* the watcher's dispatching for one descriptor whose socket it locked:
\* sends are the embedded events it sent, <<task, slot>>, in order
ScanSock(S, rset, wset) ==
    LET none == [S |-> S, to |-> NULL, abort |-> FALSE]
        dr == IF rset /\ ~SOCK_DEAD(S)
              THEN IF S.listener THEN dispatch_accept(S) ELSE dispatch_read(S)
              ELSE none
        dw == IF wset /\ ~SOCK_DEAD(dr.S) /\ ~dr.abort
              THEN IF dr.S.connecting THEN dispatch_connect(dr.S) ELSE dispatch_write(dr.S)
              ELSE [S |-> dr.S, to |-> NULL, abort |-> FALSE]
    IN  [S |-> dw.S,
         sends |-> (IF rset /\ ~SOCK_DEAD(S) /\ ~dr.abort THEN <<<<dr.to, "r">>>> ELSE <<>>)
                   \o (IF wset /\ ~SOCK_DEAD(dr.S) /\ ~dr.abort /\ ~dw.abort
                       THEN <<<<dw.to, "w">>>> ELSE <<>>),
         abort |-> dr.abort \/ dw.abort]

(***************************************************************************)
(* The locks.  Each function of the library is reduced to the LOCK, UNLOCK *)
(* and WAIT calls it makes, in the order of its code, with the calls of    *)
(* the functions it calls (destroy) in their place; which path a function  *)
(* takes is the choice of the step that enters it.  A thread is the        *)
(* watcher, a task thread running the internal_* handlers and the users'   *)
(* event handlers, or a thread calling the API.  A LOCK waits until no     *)
(* thread holds the mutex.                                                 *)
(***************************************************************************)
Threads == {"watcher", "task", "caller"}

MgrLock == <<"manager", 0>>
SockLock(s) == <<"sock", s>>

LOCK(l) == <<"LOCK", l>>
UNLOCK(l) == <<"UNLOCK", l>>
\* WAIT(&manager->shutdown_ok, &manager->lock)
WAIT(l) == <<"WAIT", l>>
\* select(): no lock call, the place where the watcher blocks
SELECT == <<"SELECT", MgrLock>>

\* destroy(): LOCK(&manager->lock) ... UNLOCK(&manager->lock), free_socket
lk_destroy == <<LOCK(MgrLock), UNLOCK(MgrLock)>>

\* isc_socket_create: the registration under the manager lock
lk_isc_socket_create == <<LOCK(MgrLock), UNLOCK(MgrLock)>>

\* the functions that lock the socket, work and unlock it on every path:
\* isc_socket_attach, isc_socket_recv, isc_socket_recvv, isc_socket_send,
\* isc_socket_sendto, isc_socket_bind, isc_socket_listen, isc_socket_accept,
\* isc_socket_connect, isc_socket_getpeername, isc_socket_getsockname,
\* isc_socket_cancel, isc_socket_recvmark, isc_socket_sendmark
lk_locked(s) == <<LOCK(SockLock(s)), UNLOCK(SockLock(s))>>

\* fault injection: isc_socket_detach that calls destroy() before it unlocks
\* the socket
lk_detach_destroys_locked(s, kill) ==
    <<LOCK(SockLock(s))>> \o (IF kill THEN lk_destroy ELSE <<>>) \o <<UNLOCK(SockLock(s))>>

\* isc_socket_detach: kill_socket is set under the socket lock and destroy()
\* is called after UNLOCK(&sock->lock)
lk_isc_socket_detach(s, kill) == lk_locked(s) \o (IF kill THEN lk_destroy ELSE <<>>)

\* internal_recv, internal_send, internal_connect: the handler locks the
\* socket, drops the event's reference and, at 0, unlocks and calls
\* destroy(); otherwise it unlocks when it is done
lk_internal(s, kill) == lk_locked(s) \o (IF kill THEN lk_destroy ELSE <<>>)

\* internal_accept: as the other handlers, and after a successful accept()
\* it unlocks the socket and registers the new one under the manager lock
AcceptPaths == {"destroy", "nothing", "failed", "accepted"}

lk_internal_accept(s, path) ==
    lk_locked(s) \o (IF path = "destroy" THEN lk_destroy
                     ELSE IF path = "accepted" THEN <<LOCK(MgrLock), UNLOCK(MgrLock)>>
                     ELSE <<>>)

\* isc_socketmgr_destroy: LOCK, the wait loop, UNLOCK; the poke and the join
\* are made with no lock held
lk_isc_socketmgr_destroy(waits) ==
    <<LOCK(MgrLock)>> \o (IF waits THEN <<WAIT(MgrLock)>> ELSE <<>>) \o <<UNLOCK(MgrLock)>>

\* the socket locks the watcher takes in one turn of "while (!done)", one
\* after the other: for the messages of the control pipe and for the
\* descriptors select() reported
RECURSIVE lk_each(_)
lk_each(ss) == IF ss = <<>> THEN <<>> ELSE lk_locked(ss[1]) \o lk_each(Tail(ss))

\* fault injection: a watcher that goes into select() with the manager lock
lk_watcher_turn_locked(ss) == <<SELECT>> \o lk_each(ss)

\* one turn of the watcher's loop: UNLOCK(&manager->lock), select(),
\* LOCK(&manager->lock), then the socket locks
lk_watcher_turn(ss) == <<UNLOCK(MgrLock), SELECT, LOCK(MgrLock)>> \o lk_each(ss)

\* the sockets of one turn of the watcher
MaxTurn == 2
Turns == UNION {[1..n -> Socks] : n \in 0..MaxTurn}

\* the watcher thread starts with LOCK(&manager->lock); the others are
\* outside the library
ThreadsAtStart ==
    [held |-> [t \in Threads |-> {}],
     todo |-> [t \in Threads |-> IF t = "watcher" THEN <<LOCK(MgrLock)>> ELSE <<>>],
     exited |-> FALSE]

(* ------------------------------- state --------------------------------- *)
VARIABLES
    sock,       \* the socket objects, by the order of their allocation
    nalloc,     \* how many socket objects were allocated so far
    mgr,        \* the socket manager
    pipe,       \* the control pipe: messages written and not yet read
    kfd,        \* the socket descriptors open in the kernel
    w,          \* the watcher thread: pc, its copies of the fd sets, loop index
    taskq,      \* per task, the embedded internal events in its queue
    cont,       \* per task, what the handler it is running still has to do
    log,        \* history: the completion events, in the order they were sent
    posted,     \* history: the requests, in the order they were posted
    io,         \* history: the requests recvmsg()/sendmsg() was called for
    ext,        \* history: per socket, the references its users hold
    inflight,   \* history: per socket, internal events dispatched, not handled
    cancels,    \* history: whether isc_socket_cancel was ever called
    aborted,    \* an INSIST/REQUIRE/FATAL_ERROR ended the program
    lk          \* per thread, the locks it holds and the LOCK/UNLOCK calls
                \* the function it is in still has to make

vars == <<sock, nalloc, mgr, pipe, kfd, w, taskq, cont, log, posted, io, ext,
          inflight, cancels, aborted, lk>>

\* everything but the threads' locks
data == <<sock, nalloc, mgr, pipe, kfd, w, taskq, cont, log, posted, io, ext,
          inflight, cancels, aborted>>

Init ==
    /\ sock = [s \in Socks |-> NoSock]
    /\ nalloc = 0
    /\ mgr = isc_socketmgr_create
    /\ pipe = <<>>
    /\ kfd = {}
    /\ w = Snapshot(isc_socketmgr_create,
                    [pc |-> "select", readfds |-> {}, writefds |-> {}, maxfd |-> 0,
                     i |-> 0, done |-> FALSE])
    /\ taskq = [t \in Tasks |-> <<>>]
    /\ cont = [t \in Tasks |-> <<>>]
    /\ log = <<>>
    /\ posted = <<>>
    /\ io = {}
    /\ ext = [s \in Socks |-> 0]
    /\ inflight = [s \in Socks |-> 0]
    /\ cancels = FALSE
    /\ aborted = FALSE
    /\ lk = ThreadsAtStart

Running == ~aborted
\* the manager lock is free while the watcher sits in select() or has exited
MgrLockFree == w.pc \in {"select", "exit"}
FreeFds == SockFds \ kfd
LowestFree == CHOOSE fd \in FreeFds : \A g \in FreeFds : fd <= g
\* a caller may use a socket it holds a reference to
Usable(s) == sock[s].magic /\ ext[s] > 0
CanPost == Len(posted) < MaxReq
NextId == Len(posted) + 1
\* copies of the embedded event `slot` of socket s in the task queues
InQueue(s, slot) ==
    LET RECURSIVE cnt(_)
        cnt(T) == IF T = {} THEN 0
                  ELSE LET t == CHOOSE x \in T : TRUE
                       IN  Len(SelectSeq(taskq[t], LAMBDA e : e = <<s, slot>>))
                           + cnt(T \ {t})
    IN  cnt(Tasks)

\* the effect of a call or handler on socket s, given its result record
Commit(s, r) ==
    /\ r.poke => Len(pipe) < MaxPipe
    /\ sock' = [sock EXCEPT ![s] = r.S]
    /\ log' = log \o r.ev
    /\ pipe' = IF r.poke THEN Append(pipe, r.S.fd) ELSE pipe
    /\ io' = io \cup r.io

Posted(s, dir, task, list, ret) ==
    Append(posted, [sock |-> s, dir |-> dir, task |-> task, ret |-> ret,
                    sticky |-> IF dir = "send" THEN sock[s].send_result
                               ELSE sock[s].recv_result,
                    queued |-> Linked(list, NextId)])

(* ----------------------- socket life cycle ----------------------------- *)
\* isc_socket_create, on the path where allocation and socket() succeed
Create(type) ==
    /\ Running /\ MgrLockFree
    /\ nalloc < MaxSock /\ FreeFds # {}
    /\ LET s == nalloc + 1
           fd == LowestFree
       IN  /\ sock' = [sock EXCEPT ![s] = [allocate_socket(type) EXCEPT
                                              !.fd = fd, !.references = 1]]
           /\ mgr' = Register(mgr, fd, s)
           /\ kfd' = kfd \cup {fd}
           /\ ext' = [ext EXCEPT ![s] = 1]
           /\ nalloc' = s
    /\ UNCHANGED <<lk, pipe, w, taskq, cont, log, posted, io, inflight, cancels, aborted>>

isc_socket_attach(S) == [S EXCEPT !.references = @ + 1]

Attach(s) ==
    /\ Running /\ Usable(s) /\ ext[s] < MaxRef
    /\ sock' = [sock EXCEPT ![s] = isc_socket_attach(@)]
    /\ ext' = [ext EXCEPT ![s] = @ + 1]
    /\ UNCHANGED <<lk, nalloc, mgr, pipe, kfd, w, taskq, cont, log, posted, io,
                   inflight, cancels, aborted>>

\* isc_socket_detach up to UNLOCK(&sock->lock); with references = 0 the
\* caller goes on to destroy()
isc_socket_detach(S) == [S EXCEPT !.references = @ - 1]

Detach(s) ==
    /\ Running /\ Usable(s)
    /\ IF sock[s].references = 0
       THEN aborted' = TRUE /\ UNCHANGED <<sock, ext>>
       ELSE /\ sock' = [sock EXCEPT ![s] = isc_socket_detach(@)]
            /\ ext' = [ext EXCEPT ![s] = @ - 1]
            /\ UNCHANGED aborted
    /\ UNCHANGED <<lk, nalloc, mgr, pipe, kfd, w, taskq, cont, log, posted, io,
                   inflight, cancels>>

\* destroy(), by the thread that dropped the last reference.  With fd = -1
\* (a socket whose accept() failed) the stores to manager->fds[-1] and
\* manager->fdstate[-1] land outside the arrays: `oob` chooses between the
\* program dying there and the stores landing in the neighbouring members.
Destroy(s, oob) ==
    /\ Running /\ MgrLockFree
    /\ sock[s].magic /\ sock[s].references = 0
    /\ Len(pipe) < MaxPipe
    /\ IF ~DestroyInsists(sock[s]) \/ (sock[s].fd = -1 /\ oob)
       THEN aborted' = TRUE /\ UNCHANGED <<sock, mgr, pipe>>
       ELSE /\ mgr' = IF sock[s].fd = -1
                      THEN UnregisterNoFd(mgr)
                      ELSE Unregister(mgr, sock[s].fd)
            /\ pipe' = Append(pipe, sock[s].fd)
            /\ sock' = [sock EXCEPT ![s] = free_socket(@)]
            /\ aborted' = ~FreeInsists(sock[s])
    /\ UNCHANGED <<lk, nalloc, kfd, w, taskq, cont, log, posted, io, ext, inflight, cancels>>

isc_socket_listen(S) == [S EXCEPT !.listener = TRUE]

\* isc_socket_listen, on the path where listen() succeeds
Listen(s) ==
    /\ Running /\ Usable(s)
    /\ sock[s].type = "tcp" /\ ~sock[s].listener
    /\ sock' = [sock EXCEPT ![s] = isc_socket_listen(@)]
    /\ UNCHANGED <<lk, nalloc, mgr, pipe, kfd, w, taskq, cont, log, posted, io, ext,
                   inflight, cancels, aborted>>

(* --------------------------- posting actions --------------------------- *)
Recv(s, t, length, minimum, o) ==
    /\ Running /\ Usable(s) /\ CanPost
    /\ LET r == isc_socket_recv(sock[s], NextId, t, length, minimum, o)
       IN  /\ Commit(s, r)
           /\ posted' = Posted(s, "recv", t, r.S.recv_list, "SUCCESS")
    /\ UNCHANGED <<lk, nalloc, mgr, kfd, w, taskq, cont, ext, inflight, cancels, aborted>>

\* A marker posted on an empty queue is sent to the pointer that
\* allocate_socketevent() left in dev->sender, the socket: `crash` chooses
\* between the task library dying of a task that is none and the event going
\* where no task receives it.
SentToNoTask(r) == \E i \in DOMAIN r.ev : r.ev[i].to = SockAsSender

RecvMark(s, t, crash) ==
    /\ Running /\ Usable(s) /\ CanPost
    /\ LET r == isc_socket_recvmark(sock[s], NextId, t)
       IN  /\ posted' = Posted(s, "recv", t, r.S.recv_list, "SUCCESS")
           /\ IF SentToNoTask(r) /\ crash
              THEN aborted' = TRUE /\ UNCHANGED <<sock, log, pipe, io>>
              ELSE Commit(s, r) /\ UNCHANGED aborted
    /\ UNCHANGED <<lk, nalloc, mgr, kfd, w, taskq, cont, ext, inflight, cancels>>

Send(s, t, length, o) ==
    /\ Running /\ Usable(s) /\ CanPost
    /\ LET r == isc_socket_sendto(sock[s], NextId, t, length, o)
       IN  /\ Commit(s, r)
           /\ posted' = Posted(s, "send", t, r.S.send_list, "SUCCESS")
    /\ UNCHANGED <<lk, nalloc, mgr, kfd, w, taskq, cont, ext, inflight, cancels, aborted>>

SendMark(s, t, crash) ==
    /\ Running /\ Usable(s) /\ CanPost
    /\ LET r == isc_socket_sendmark(sock[s], NextId, t)
       IN  /\ posted' = Posted(s, "send", t, r.S.send_list, "SUCCESS")
           /\ IF SentToNoTask(r) /\ crash
              THEN aborted' = TRUE /\ UNCHANGED <<sock, log, pipe, io>>
              ELSE Commit(s, r) /\ UNCHANGED aborted
    /\ UNCHANGED <<lk, nalloc, mgr, kfd, w, taskq, cont, ext, inflight, cancels>>

\* fault injection: isc_socket_accept without nsock->references++
accept_nsock_unreferenced(type) == allocate_socket(type)

\* the socket isc_socket_accept allocates for the connection to come:
\* allocate_socket() and nsock->references++
accept_nsock(type) == [allocate_socket(type) EXCEPT !.references = 1]

\* isc_socket_accept, on the path where both allocations succeed
Accept(s, t) ==
    /\ Running /\ Usable(s) /\ CanPost
    /\ sock[s].listener
    /\ nalloc < MaxSock
    /\ LET n == nalloc + 1
           r == isc_socket_accept(sock[s], NextId, t, n)
       IN  /\ r.poke => Len(pipe) < MaxPipe
           /\ sock' = [sock EXCEPT
                         ![s] = r.S,
                         ![n] = accept_nsock(sock[s].type)]
           /\ pipe' = IF r.poke THEN Append(pipe, r.S.fd) ELSE pipe
           /\ posted' = Posted(s, "accept", t, r.S.accept_list, "SUCCESS")
           /\ nalloc' = n
    /\ UNCHANGED <<lk, mgr, kfd, w, taskq, cont, log, io, ext, inflight, cancels, aborted>>

Connect(s, t, e) ==
    /\ Running /\ Usable(s) /\ CanPost
    /\ ~sock[s].connecting
    /\ LET r == isc_socket_connect(sock[s], NextId, t, e)
       IN  /\ Commit(s, r)
           /\ posted' = Posted(s, "connect", t, r.S.connect_ev, r.ret)
    /\ UNCHANGED <<lk, nalloc, mgr, kfd, w, taskq, cont, ext, inflight, cancels, aborted>>

\* isc_socket_cancel with how # 0
Cancel(s, task, how) ==
    /\ Running /\ Usable(s)
    /\ how # {}
    /\ Len(pipe) < MaxPipe
    /\ LET r == isc_socket_cancel(sock[s], task, how)
       IN  IF r.abort
           THEN aborted' = TRUE /\ UNCHANGED <<sock, log, pipe>>
           ELSE /\ sock' = [x \in Socks |->
                              IF x = s THEN r.S
                              ELSE IF x \in r.freed
                                   THEN free_socket([sock[x] EXCEPT !.references = @ - 1])
                                   ELSE sock[x]]
                /\ log' = log \o r.ev
                /\ pipe' = Append(pipe, r.S.fd)
                /\ UNCHANGED aborted
    /\ cancels' = TRUE
    /\ UNCHANGED <<lk, nalloc, mgr, kfd, w, taskq, cont, posted, io, ext, inflight>>

(* --------------------------- watcher actions --------------------------- *)
\* The watcher's steps are cut where it takes a socket lock or closes a
\* descriptor.  What select() reported for a descriptor is an input of the
\* step that tests it: the kernel may report any descriptor of the sets the
\* watcher handed it.

\* select() fails with EBADF, a FATAL_ERROR, when a descriptor of its sets is
\* not open
SelectFails ==
    /\ w.pc = "select"
    /\ \E fd \in (w.readfds \cup w.writefds) \cap SockFds : fd < w.maxfd /\ fd \notin kfd

\* select() has returned with the control pipe readable and the watcher reads
\* one message from it
WatcherReadMsg ==
    /\ Running /\ w.pc \in {"select", "ctl"} /\ pipe # <<>>
    /\ IF SelectFails
       THEN aborted' = TRUE /\ UNCHANGED <<mgr, pipe, kfd, w>>
       ELSE LET msg == Head(pipe)
            IN  /\ pipe' = Tail(pipe)
                /\ UNCHANGED aborted
                /\ IF msg = SELECT_POKE_SHUTDOWN
                   THEN /\ w' = [w EXCEPT !.pc = "scan", !.done = TRUE]
                        /\ UNCHANGED <<mgr, kfd>>
                   ELSE /\ w' = [w EXCEPT !.pc = "ctl"]
                        /\ IF mgr.fdstate[msg] = CLOSE_PENDING
                           THEN mgr' = WatcherClose(mgr, msg) /\ kfd' = kfd \ {msg}
                           ELSE IF mgr.fdstate[msg] # MANAGED
                           THEN UNCHANGED <<mgr, kfd>>
                           ELSE mgr' = Rewatch(mgr, sock[mgr.fds[msg]]) /\ UNCHANGED kfd
    /\ UNCHANGED <<lk, sock, nalloc, taskq, cont, log, posted, io, ext, inflight, cancels>>

\* the watcher is past the control pipe: select() did not report it, or
\* select_readmsg() found it empty
PastPipe == IF w.pc = "ctl" THEN pipe = <<>> ELSE w.pc \in {"select", "scan"}

\* the descriptors from the scan's position up to i need no step of their own
NothingToClose(i) == \A j \in w.i..(i - 1) : mgr.fdstate[j] # CLOSE_PENDING

\* isc_task_send of the embedded events the watcher dispatched for socket s
SendInternal(Q, s, sends) ==
    IF sends = <<>> THEN Q
    ELSE LET Q1 == [Q EXCEPT ![sends[1][1]] = Append(@, <<s, sends[1][2]>>)]
         IN  IF Len(sends) = 1 THEN Q1
             ELSE [Q1 EXCEPT ![sends[2][1]] = Append(@, <<s, sends[2][2]>>)]

\* The turn of "for (i = 0; i < maxfd; i++)" for descriptor i, which is
\* CLOSE_PENDING or reported readable (rset) or writable (wset); the turns
\* before it found nothing to do.  An embedded event sent while it is still
\* linked in a task queue corrupts that queue: `crash` chooses between the
\* program dying of it and the event being found in the queue twice.
WatcherScan(i, rset, wset, crash) ==
    /\ Running /\ PastPipe
    /\ i >= w.i /\ i < w.maxfd /\ NothingToClose(i)
    /\ rset => i \in w.readfds
    /\ wset => i \in w.writefds
    /\ IF mgr.fdstate[i] = CLOSE_PENDING THEN ~rset /\ ~wset ELSE rset \/ wset
    /\ rset /\ mgr.fds[i] # NULL => InQueue(mgr.fds[i], "r") < MaxDup
    /\ wset /\ mgr.fds[i] # NULL => InQueue(mgr.fds[i], "w") < MaxDup
    /\ LET s == mgr.fds[i]
           M1 == [mgr EXCEPT !.read_fds = IF rset THEN @ \ {i} ELSE @,
                             !.write_fds = IF wset THEN @ \ {i} ELSE @]
           W1 == [w EXCEPT !.pc = "scan", !.i = i + 1]
       IN  IF SelectFails
           THEN /\ aborted' = TRUE
                /\ UNCHANGED <<sock, mgr, kfd, w, taskq, inflight>>
           ELSE IF mgr.fdstate[i] = CLOSE_PENDING
           THEN /\ mgr' = WatcherClose(mgr, i)
                /\ kfd' = kfd \ {i}
                /\ w' = W1
                /\ UNCHANGED <<sock, taskq, inflight, aborted>>
           ELSE IF s = NULL
           THEN /\ mgr' = M1
                /\ w' = W1
                /\ UNCHANGED <<sock, kfd, taskq, inflight, aborted>>
           ELSE LET r == ScanSock(sock[s], rset, wset)
                    relinked == \E k \in DOMAIN r.sends : InQueue(s, r.sends[k][2]) > 0
                IN  IF r.abort \/ (relinked /\ crash)
                    THEN /\ aborted' = TRUE
                         /\ UNCHANGED <<sock, mgr, kfd, w, taskq, inflight>>
                    ELSE /\ sock' = [sock EXCEPT ![s] = r.S]
                         /\ taskq' = SendInternal(taskq, s, r.sends)
                         /\ inflight' = [inflight EXCEPT ![s] = @ + Len(r.sends)]
                         /\ mgr' = M1
                         /\ w' = W1
                         /\ UNCHANGED <<kfd, aborted>>
    /\ UNCHANGED <<lk, nalloc, pipe, cont, log, posted, io, ext, cancels>>

\* The scan found nothing more to do and the watcher is back at the top of
\* "while (!done)"; or select() was interrupted (EINTR) and the watcher takes
\* a new copy of the sets.
WatcherLoop ==
    /\ Running /\ PastPipe
    /\ w.pc # "select" => NothingToClose(w.maxfd)
    /\ w' = IF w.done THEN [w EXCEPT !.pc = "exit"] ELSE Snapshot(mgr, w)
    /\ UNCHANGED <<lk, sock, nalloc, mgr, pipe, kfd, taskq, cont, log, posted, io, ext,
                   inflight, cancels, aborted>>

(* --------------------------- handler actions --------------------------- *)
\* task t is idle and the event at the head of its queue is the embedded
\* event `slot` of a socket whose action field says `action`
Runs(t, slot, action) ==
    /\ Running /\ cont[t] = <<>> /\ taskq[t] # <<>>
    /\ Head(taskq[t])[2] = slot
    /\ LET S == sock[Head(taskq[t])[1]]
       IN  IF slot = "r" THEN S.rev_action = action ELSE S.wev_action = action

\* what every handler does around its body: the event leaves the queue, and
\* INSIST(VALID_SOCKET(sock)) fails on freed memory
Handle(t, r) ==
    LET s == Head(taskq[t])[1]
    IN  /\ taskq' = [taskq EXCEPT ![t] = Tail(@)]
        /\ inflight' = [inflight EXCEPT ![s] = @ - 1]
        /\ IF ~sock[s].magic \/ r.abort
           THEN aborted' = TRUE /\ UNCHANGED <<sock, log, pipe, io>>
           ELSE Commit(s, r) /\ UNCHANGED aborted

\* O: what the recvmsg() calls of this run can answer
InternalRecv(t, O) ==
    /\ Runs(t, "r", "internal_recv")
    /\ \E outs \in [1..Len(sock[Head(taskq[t])[1]].recv_list) -> O] :
          Handle(t, internal_recv(sock[Head(taskq[t])[1]], outs))
    /\ UNCHANGED <<lk, nalloc, mgr, kfd, w, cont, posted, ext, cancels>>

\* O: what the sendmsg() calls of this run can answer
InternalSend(t, O) ==
    /\ Runs(t, "w", "internal_send")
    /\ \E outs \in [1..Len(sock[Head(taskq[t])[1]].send_list) -> O] :
          Handle(t, internal_send(sock[Head(taskq[t])[1]], outs))
    /\ UNCHANGED <<lk, nalloc, mgr, kfd, w, cont, posted, ext, cancels>>

\* accept() takes the lowest free descriptor; when make_nonblock() fails on
\* it the handler closes it again after UNLOCK(&sock->lock), in AcceptTail
InternalAccept(t, e) ==
    /\ Runs(t, "r", "internal_accept")
    /\ e \in {"0", "ENONBLOCK"} => FreeFds # {}
    /\ LET r == internal_accept(sock[Head(taskq[t])[1]], e)
           got == r.tail # <<>> /\ r.tail[1].opened
       IN  /\ Handle(t, r)
           /\ cont' = [cont EXCEPT ![t] =
                          IF aborted' THEN <<>>
                          ELSE IF got THEN <<r.tail[1] @@ [fd |-> LowestFree]>>
                          ELSE IF r.tail # <<>> THEN <<r.tail[1] @@ [fd |-> -1]>>
                          ELSE <<>>]
           /\ kfd' = IF got /\ ~aborted' THEN kfd \cup {LowestFree} ELSE kfd
    /\ UNCHANGED <<lk, nalloc, mgr, w, posted, ext, cancels>>

InternalConnect(t, e) ==
    /\ Runs(t, "w", "internal_connect")
    /\ LET r == internal_connect(sock[Head(taskq[t])[1]], e)
       IN  /\ Handle(t, r)
           /\ cont' = [cont EXCEPT ![t] =
                          IF aborted' \/ r.tail = <<>> THEN <<>>
                          ELSE <<r.tail[1] @@ [fd |-> -1]>>]
    /\ UNCHANGED <<lk, nalloc, mgr, kfd, w, posted, ext, cancels>>

\* the rest of internal_accept after UNLOCK(&sock->lock): close the
\* descriptor make_nonblock() failed on, or store it in the new socket and
\* register it under the manager lock; send the NEWCONN event; from then on
\* the receiver owns the new socket
AcceptTail(t) ==
    /\ Running /\ cont[t] # <<>> /\ cont[t][1].kind = "accept"
    /\ LET c == cont[t][1]
           n == c.dev.newsocket
       IN  /\ c.gotfd => MgrLockFree
           /\ sock' = IF c.gotfd THEN [sock EXCEPT ![n].fd = c.fd] ELSE sock
           /\ mgr' = IF c.gotfd THEN Register(mgr, c.fd, n) ELSE mgr
           /\ kfd' = IF c.opened /\ ~c.gotfd THEN kfd \ {c.fd} ELSE kfd
           /\ log' = Append(log, Done(c.dev, c.result, c.dev.sender, TRUE))
           /\ ext' = [ext EXCEPT ![n] = 1]
    /\ cont' = [cont EXCEPT ![t] = <<>>]
    /\ UNCHANGED <<lk, nalloc, pipe, w, taskq, posted, io, inflight, cancels, aborted>>

\* the rest of internal_connect after UNLOCK(&sock->lock): send the event
ConnectTail(t) ==
    /\ Running /\ cont[t] # <<>> /\ cont[t][1].kind = "connect"
    /\ log' = Append(log, Done(cont[t][1].dev, cont[t][1].result,
                               cont[t][1].dev.sender, TRUE))
    /\ cont' = [cont EXCEPT ![t] = <<>>]
    /\ UNCHANGED <<lk, sock, nalloc, mgr, pipe, kfd, w, taskq, posted, io, ext,
                   inflight, cancels, aborted>>

(* ------------------------ isc_socketmgr_destroy ------------------------ *)
\* mgr.destroyer is where the thread that called isc_socketmgr_destroy is:
\* "none" not called, "wait" in the loop around WAIT(&manager->shutdown_ok),
\* "join" in isc_thread_join, "done" returned, the manager freed

\* the test of the loop the destroyer waits in
WaitOver(M) == M.nsockets = 0
\* fault injection: isc_socketmgr_destroy closing every descriptor in use
NotClosed(M) == {fd \in FDs : M.fdstate[fd] # CLOSED}

\* the descriptors isc_socketmgr_destroy closes after the join
LeftPending(M) == {fd \in FDs : M.fdstate[fd] = CLOSE_PENDING}

\* isc_socketmgr_destroy is called and takes the manager lock
MgrDestroyEnter ==
    /\ Running /\ mgr.destroyer = "none" /\ MgrLockFree
    /\ mgr' = [mgr EXCEPT !.destroyer = "wait"]
    /\ UNCHANGED <<lk, sock, nalloc, pipe, kfd, w, taskq, cont, log, posted, io, ext,
                   inflight, cancels, aborted>>

\* the destroyer, holding the manager lock, finds nsockets = 0 (at once, or
\* woken by destroy()'s SIGNAL), unlocks and pokes SELECT_POKE_SHUTDOWN
MgrDestroyPoke ==
    /\ Running /\ mgr.destroyer = "wait" /\ MgrLockFree
    /\ WaitOver(mgr)
    /\ Len(pipe) < MaxPipe
    /\ pipe' = Append(pipe, SELECT_POKE_SHUTDOWN)
    /\ mgr' = [mgr EXCEPT !.destroyer = "join"]
    /\ UNCHANGED <<lk, sock, nalloc, kfd, w, taskq, cont, log, posted, io, ext,
                   inflight, cancels, aborted>>

\* the watcher has returned: the join ends, the destroyer closes what is
\* still CLOSE_PENDING and frees the manager
MgrDestroyJoin ==
    /\ Running /\ mgr.destroyer = "join" /\ w.pc = "exit"
    /\ kfd' = kfd \ LeftPending(mgr)
    /\ mgr' = [mgr EXCEPT !.destroyer = "done"]
    /\ UNCHANGED <<lk, sock, nalloc, pipe, w, taskq, cont, log, posted, io, ext,
                   inflight, cancels, aborted>>

(* ---------------------------- lock actions ----------------------------- *)
Holder(l) == {t \in Threads : l \in lk.held[t]}

\* thread t is outside the library and calls a function that makes `calls`
LkEnter(t, calls) ==
    /\ lk.todo[t] = <<>>
    /\ lk' = [lk EXCEPT !.todo[t] = calls]
    /\ UNCHANGED data

LkCreate(t) == t # "watcher" /\ LkEnter(t, lk_isc_socket_create)

LkLocked(t, s) == t # "watcher" /\ LkEnter(t, lk_locked(s))

LkDetach(t, s, kill) == t # "watcher" /\ LkEnter(t, lk_isc_socket_detach(s, kill))

LkInternal(t, s, kill) == t = "task" /\ LkEnter(t, lk_internal(s, kill))

LkInternalAccept(t, s, path) == t = "task" /\ LkEnter(t, lk_internal_accept(s, path))

LkMgrDestroy(t, waits) == t = "caller" /\ LkEnter(t, lk_isc_socketmgr_destroy(waits))

\* the watcher is at the top of its loop
LkWatcherTurn(ss) ==
    /\ ~lk.exited /\ lk.held["watcher"] = {MgrLock}
    /\ LkEnter("watcher", lk_watcher_turn(ss))

\* done is set: the watcher leaves the loop, unlocks the manager and returns
LkWatcherExit ==
    /\ ~lk.exited /\ lk.held["watcher"] = {MgrLock}
    /\ lk.todo["watcher"] = <<>>
    /\ lk' = [lk EXCEPT !.todo["watcher"] = <<UNLOCK(MgrLock)>>, !.exited = TRUE]
    /\ UNCHANGED data

\* thread t makes the next call of the function it is in
LkStep(t) ==
    /\ lk.todo[t] # <<>>
    /\ LET op == Head(lk.todo[t])
           l == op[2]
       IN  CASE op[1] = "LOCK" ->
                  /\ Holder(l) = {}
                  /\ lk' = [lk EXCEPT !.held[t] = @ \cup {l}, !.todo[t] = Tail(@)]
             [] op[1] = "UNLOCK" ->
                  /\ l \in lk.held[t]
                  /\ lk' = [lk EXCEPT !.held[t] = @ \ {l}, !.todo[t] = Tail(@)]
             [] op[1] = "WAIT" ->
                  /\ l \in lk.held[t]
                  /\ lk' = [lk EXCEPT !.held[t] = @ \ {l},
                                      !.todo[t] = <<LOCK(l)>> \o Tail(@)]
             [] op[1] = "SELECT" ->
                  lk' = [lk EXCEPT !.todo[t] = Tail(@)]
    /\ UNCHANGED data

NextLocks ==
    \/ \E t \in Threads : LkCreate(t)
    \/ \E t \in Threads, s \in Socks : LkLocked(t, s)
    \/ \E t \in Threads, s \in Socks, kill \in BOOLEAN : LkDetach(t, s, kill)
    \/ \E t \in Threads, s \in Socks, kill \in BOOLEAN : LkInternal(t, s, kill)
    \/ \E t \in Threads, s \in Socks, path \in AcceptPaths : LkInternalAccept(t, s, path)
    \/ \E t \in Threads, waits \in BOOLEAN : LkMgrDestroy(t, waits)
    \/ \E ss \in Turns : LkWatcherTurn(ss)
    \/ LkWatcherExit
    \/ \E t \in Threads : LkStep(t)

SpecLocks == Init /\ [][NextLocks]_vars

(* --------------------------- specification ----------------------------- *)
Lens == 1..MaxLen

Next ==
    \/ \E type \in {"tcp", "udp"} : Create(type)
    \/ \E s \in Socks : Attach(s)
    \/ \E s \in Socks : Detach(s)
    \/ \E s \in Socks, oob \in BOOLEAN : Destroy(s, oob)
    \/ \E s \in Socks : Listen(s)
    \/ \E s \in Socks, t \in Tasks, l \in Lens, o \in IoOutcomes :
          \E m \in 0..l : Recv(s, t, l, m, o)
    \/ \E s \in Socks, t \in Tasks, crash \in BOOLEAN : RecvMark(s, t, crash)
    \/ \E s \in Socks, t \in Tasks, l \in Lens, o \in IoOutcomes : Send(s, t, l, o)
    \/ \E s \in Socks, t \in Tasks, crash \in BOOLEAN : SendMark(s, t, crash)
    \/ \E s \in Socks, t \in Tasks : Accept(s, t)
    \/ \E s \in Socks, t \in Tasks, e \in ConnectErrnos : Connect(s, t, e)
    \/ \E s \in Socks, task \in Tasks \cup {NULL}, how \in SUBSET CancelKinds :
          Cancel(s, task, how)
    \/ WatcherReadMsg
    \/ \E i \in SockFds, rset \in BOOLEAN, wset \in BOOLEAN, crash \in BOOLEAN :
          WatcherScan(i, rset, wset, crash)
    \/ WatcherLoop
    \/ \E t \in Tasks : InternalRecv(t, IoOutcomes)
    \/ \E t \in Tasks : InternalSend(t, IoOutcomes)
    \/ \E t \in Tasks, e \in AcceptErrnos : InternalAccept(t, e)
    \/ \E t \in Tasks, e \in SoErrnos : InternalConnect(t, e)
    \/ \E t \in Tasks : AcceptTail(t)
    \/ \E t \in Tasks : ConnectTail(t)
    \/ MgrDestroyEnter
    \/ MgrDestroyPoke
    \/ MgrDestroyJoin

Spec == Init /\ [][Next]_vars

(***************************************************************************)
(* The scenarios.  Spec lets every caller do everything; each scenario     *)
(* below runs the same actions for one kind of use of the library, with    *)
(* the kernel's answers drawn from the values that use meets.              *)
(***************************************************************************)
Watcher ==
    \/ WatcherReadMsg
    \/ \E i \in SockFds, rset \in BOOLEAN, wset \in BOOLEAN, crash \in BOOLEAN :
          WatcherScan(i, rset, wset, crash)
    \/ WatcherLoop

\* recvmsg()/sendmsg() either has nothing to move yet or moves everything
NothingYet == [errno |-> "EAGAIN", avail |-> 0]
IoBrief == {NothingYet, [errno |-> "OK", avail |-> MaxLen]}
\* the socket isc_socket_create returned first, and the task that works alone
TheSock == {1}
OneTask == {1}
\* the scenario's callers have requests left to post
Few == Len(posted) < MaxBusy
\* isc_socket_cancel for one category or for all of them
CancelMasks == {{k} : k \in CancelKinds} \cup {CancelKinds}

\* SpecIO: one socket, stream or datagram, on which one task posts receives,
\* sends and markers and never cancels; connect() to the peer succeeds at
\* once.
NextIO ==
    \/ \E type \in {"tcp", "udp"} : nalloc = 0 /\ Create(type)
    \/ \E s \in TheSock, t \in OneTask, o \in IoOutcomes :
          \E m \in {0, 1} : Recv(s, t, MaxLen, m, o)
    \/ \E s \in TheSock, t \in OneTask, crash \in BOOLEAN : RecvMark(s, t, crash)
    \/ \E s \in TheSock, t \in OneTask, o \in IoOutcomes : Send(s, t, MaxLen, o)
    \/ \E s \in TheSock, t \in OneTask, crash \in BOOLEAN : SendMark(s, t, crash)
    \/ \E s \in TheSock, t \in OneTask : Connect(s, t, "0")
    \/ Watcher
    \/ \E t \in OneTask : InternalRecv(t, IoOutcomes)
    \/ \E t \in OneTask : InternalSend(t, IoOutcomes)

SpecIO == Init /\ [][NextIO]_vars

\* SpecCancel: one stream socket, listening or connecting, on which two tasks
\* post requests of every category, none of them served at once, and cancel
\* them.
NextCancel ==
    \/ nalloc = 0 /\ Create("tcp")
    \/ \E s \in TheSock : Listen(s)
    \/ \E s \in TheSock, t \in Tasks :
          Few /\ Recv(s, t, MaxLen, 0, NothingYet)
    \/ \E s \in TheSock, t \in Tasks, crash \in BOOLEAN :
          Few /\ RecvMark(s, t, crash)
    \/ \E s \in TheSock, t \in Tasks :
          Few /\ Send(s, t, MaxLen, NothingYet)
    \/ \E s \in TheSock, t \in Tasks, crash \in BOOLEAN :
          Few /\ SendMark(s, t, crash)
    \/ \E s \in TheSock, t \in Tasks :
          Few /\ Accept(s, t)
    \/ \E s \in TheSock, t \in Tasks :
          Few /\ Connect(s, t, "EINPROGRESS")
    \/ \E s \in TheSock, task \in Tasks \cup {NULL}, how \in CancelMasks :
          Cancel(s, task, how)
    \/ Watcher
    \/ \E t \in Tasks : InternalRecv(t, IoBrief)
    \/ \E t \in Tasks : InternalSend(t, IoBrief)
    \/ \E t \in Tasks, e \in {"0", "EAGAIN"} : InternalAccept(t, e)
    \/ \E t \in Tasks, e \in {"0", "ECONNREFUSED"} : InternalConnect(t, e)
    \/ \E t \in Tasks : AcceptTail(t)
    \/ \E t \in Tasks : ConnectTail(t)

SpecCancel == Init /\ [][NextCancel]_vars

\* SpecLife: sockets created, attached, detached and destroyed while the
\* requests one task posted on the first of them are pending and internal
\* events are in flight.
NextLife ==
    \/ nalloc = 0 /\ Create("tcp")
    \/ \E s \in Socks : Attach(s)
    \/ \E s \in Socks : Detach(s)
    \/ \E s \in Socks, oob \in BOOLEAN : Destroy(s, oob)
    \/ \E s \in TheSock : Listen(s)
    \/ \E s \in TheSock, t \in OneTask :
          Few /\ Recv(s, t, MaxLen, 0, NothingYet)
    \/ \E s \in TheSock, t \in OneTask :
          Few /\ Send(s, t, MaxLen, NothingYet)
    \/ \E s \in TheSock, t \in OneTask :
          Few /\ Accept(s, t)
    \/ \E s \in TheSock, t \in OneTask :
          Few /\ Connect(s, t, "EINPROGRESS")
    \/ \E s \in TheSock : Cancel(s, NULL, CancelKinds)
    \/ Watcher
    \/ \E t \in OneTask : InternalRecv(t, IoBrief)
    \/ \E t \in OneTask : InternalSend(t, IoBrief)
    \/ \E t \in OneTask, e \in {"0", "EIO"} : InternalAccept(t, e)
    \/ \E t \in OneTask, e \in {"0", "ECONNREFUSED"} : InternalConnect(t, e)
    \/ \E t \in OneTask : AcceptTail(t)
    \/ \E t \in OneTask : ConnectTail(t)

SpecLife == Init /\ [][NextLife]_vars

\* SpecShut: sockets are created, used for receives and accepts, let go
\* of and destroyed, descriptor numbers come round again, and the manager is
\* destroyed, its caller waiting for the sockets to go.
Alive == mgr.destroyer # "done"
NextShut ==
    \/ mgr.destroyer = "none" /\ Create("tcp")
    \/ \E s \in TheSock : Alive /\ Listen(s)
    \/ \E s \in Socks, t \in OneTask :
          Alive /\ Few /\ Recv(s, t, MaxLen, 0, NothingYet)
    \/ \E s \in TheSock, t \in OneTask :
          Alive /\ Few /\ Accept(s, t)
    \/ \E s \in Socks : Alive /\ Detach(s)
    \/ \E s \in Socks, oob \in BOOLEAN : Alive /\ Destroy(s, oob)
    \/ Watcher
    \/ \E t \in OneTask : Alive /\ InternalRecv(t, IoBrief)
    \/ \E t \in OneTask, e \in {"0", "EIO", "ENONBLOCK"} :
          Alive /\ InternalAccept(t, e)
    \/ \E t \in OneTask : Alive /\ AcceptTail(t)
    \/ MgrDestroyEnter
    \/ MgrDestroyPoke
    \/ MgrDestroyJoin

SpecShut == Init /\ [][NextShut]_vars

\* the same with threads that are scheduled: the watcher takes a step that
\* stays possible, and so does the caller of isc_socketmgr_destroy, whose
\* WAIT returns when shutdown_ok was signalled and nsockets is 0
SpecShutFair ==
    SpecShut /\ WF_vars(Watcher) /\ WF_vars(MgrDestroyPoke) /\ WF_vars(MgrDestroyJoin)

(***************************************************************************)
(* Sockets that are created, attached and detached and never used, with a  *)
(* watcher thread that is scheduled: a step of the watcher that stays      *)
(* possible is taken.  select() returns once the control pipe is readable. *)
(***************************************************************************)
NextBrief ==
    \/ \E type \in {"tcp", "udp"} : Create(type)
    \/ \E s \in Socks : Attach(s)
    \/ \E s \in Socks : Detach(s)
    \/ \E s \in Socks, oob \in BOOLEAN : Destroy(s, oob)
    \/ Watcher

SpecBrief == Init /\ [][NextBrief]_vars /\ WF_vars(Watcher)

(***************************************************************************)
(* Connects: one stream socket on which the tasks post connects that       *)
(* connect() answers in every way, cancel them, and the watcher and        *)
(* internal_connect finish those that were queued.                         *)
(***************************************************************************)
NextConn ==
    \/ nalloc = 0 /\ Create("tcp")
    \/ \E s \in TheSock, t \in Tasks, e \in ConnectErrnos : Few /\ Connect(s, t, e)
    \/ \E s \in TheSock, task \in Tasks \cup {NULL} : Cancel(s, task, {"CONNECT"})
    \/ Watcher
    \/ \E t \in Tasks, e \in {"0", "ECONNREFUSED"} : InternalConnect(t, e)
    \/ \E t \in Tasks : ConnectTail(t)

SpecConn == Init /\ [][NextConn]_vars

(***************************************************************************)
(* Accepts: a listening socket on which the tasks post accepts and cancel  *)
(* them, with accept() and make_nonblock() answering in every way.         *)
(***************************************************************************)
NextAccept ==
    \/ nalloc = 0 /\ Create("tcp")
    \/ \E s \in TheSock : Listen(s)
    \/ \E s \in TheSock, t \in Tasks : Few /\ Accept(s, t)
    \/ \E s \in TheSock, task \in Tasks \cup {NULL} : Cancel(s, task, {"ACCEPT"})
    \/ Watcher
    \/ \E t \in Tasks, e \in AcceptErrnos : InternalAccept(t, e)
    \/ \E t \in Tasks : AcceptTail(t)

SpecAccept == Init /\ [][NextAccept]_vars

\* select() reports descriptor i in every set the watcher handed it for i
ReadyScan(i) ==
    \E crash \in BOOLEAN : WatcherScan(i, i \in w.readfds, i \in w.writefds, crash)

\* the watcher is scheduled and the descriptors it watches are ready
WatcherFair ==
    /\ WF_vars(WatcherReadMsg) /\ WF_vars(WatcherLoop)
    /\ \A i \in SockFds : SF_vars(ReadyScan(i))

\* the same with threads that are scheduled, connections that arrive and an
\* accept() that does not answer with a soft error for ever
SpecAcceptFair ==
    /\ SpecAccept /\ WatcherFair
    /\ \A t \in Tasks :
          /\ SF_vars(\E e \in AcceptErrnos : ~SOFT_ERROR(e) /\ InternalAccept(t, e))
          /\ WF_vars(AcceptTail(t))

\* SpecWake: one stream socket, made a listener at once or not at all, on
\* which one task posts requests that all have to wait: accepts on the
\* listener, receives, sends and a connect on the other.  Nothing is
\* cancelled and the socket is kept.  The descriptor is ready whenever the
\* watcher selects on it, and the kernel call a handler makes is answered
\* with success sooner or later.
Ready == [errno |-> "OK", avail |-> MaxLen]
NextWake ==
    \/ nalloc = 0 /\ Create("tcp")
    \/ \E s \in TheSock : posted = <<>> /\ Listen(s)
    \/ \E s \in TheSock, t \in OneTask :
          Few /\ ~sock[s].listener /\ Recv(s, t, MaxLen, 0, NothingYet)
    \/ \E s \in TheSock, t \in OneTask :
          Few /\ ~sock[s].listener /\ Send(s, t, MaxLen, NothingYet)
    \/ \E s \in TheSock, t \in OneTask :
          Few /\ Accept(s, t)
    \/ \E s \in TheSock, t \in OneTask :
          Few /\ ~sock[s].listener /\ Connect(s, t, "EINPROGRESS")
    \/ Watcher
    \/ \E t \in OneTask : InternalRecv(t, IoBrief)
    \/ \E t \in OneTask : InternalSend(t, IoBrief)
    \/ \E t \in OneTask, e \in {"0", "EAGAIN"} : InternalAccept(t, e)
    \/ \E t \in OneTask, e \in {"0", "EAGAIN"} : InternalConnect(t, e)
    \/ \E t \in OneTask : AcceptTail(t)
    \/ \E t \in OneTask : ConnectTail(t)

TasksFair ==
    \A t \in OneTask :
        /\ SF_vars(InternalRecv(t, {Ready}))
        /\ SF_vars(InternalSend(t, {Ready}))
        /\ SF_vars(InternalAccept(t, "0"))
        /\ SF_vars(InternalConnect(t, "0"))
        /\ WF_vars(AcceptTail(t))
        /\ WF_vars(ConnectTail(t))

SpecWake == Init /\ [][NextWake]_vars /\ WatcherFair /\ TasksFair


(***************************************************************************)
(* Properties.                                                             *)
(***************************************************************************)
IsPrefix(a, b) == Len(a) <= Len(b) /\ \A k \in DOMAIN a : a[k] = b[k]
Increasing(a) == \A j, k \in DOMAIN a : j < k => a[j] < a[k]
Ids(events) == [k \in DOMAIN events |-> events[k].id]
Directions == {"recv", "send"}
\* the requests posted on (s, dir), and those task T posted on it, in the
\* order of their submission
Submitted(s, dir) ==
    SelectSeq([i \in DOMAIN posted |-> i],
              LAMBDA i : posted[i].sock = s /\ posted[i].dir = dir)
SubmittedBy(s, dir, T) ==
    SelectSeq(Submitted(s, dir), LAMBDA i : posted[i].task = T)
\* the completion events sent for them, in the order they were sent
Emitted(s, dir) ==
    Ids(SelectSeq(log, LAMBDA e : posted[e.id].sock = s /\ posted[e.id].dir = dir))
\* those of them that were sent to T for requests T posted
Delivered(s, dir, T) ==
    Ids(SelectSeq(log, LAMBDA e : /\ posted[e.id].sock = s /\ posted[e.id].dir = dir
                                  /\ posted[e.id].task = T /\ e.to = T))
Completed(id) == \E k \in DOMAIN log : log[k].id = id
CompletedWith(id, result) == \E k \in DOMAIN log : log[k].id = id /\ log[k].result = result
Stream(s) == sock[s].magic /\ sock[s].type = "tcp"

\* C1: with no Cancel issued, the completion events of every socket and
\* direction are sent in exactly the order the requests were submitted: at
\* every moment they are the first so many of the submitted requests,
\* whether a request was served inline, from the queue or was a marker.
C1_FifoWithoutCancel ==
    ~cancels => \A s \in Socks, dir \in Directions :
                    IsPrefix(Emitted(s, dir), Submitted(s, dir))

\* three receives of one socket completed in order, some served from the
\* queue by internal_recv and some inline
C1_Witness ==
    \E s \in Socks :
        /\ Len(Emitted(s, "recv")) > 2
        /\ \E i, j \in DOMAIN posted : /\ posted[i].queued /\ ~posted[j].queued
                                       /\ posted[i].dir = "recv" /\ posted[j].dir = "recv"

\* C2: the completion events delivered to task T for the requests it posted
\* on (S, D) arrive in T's submission order, Cancel or not; and with no
\* cancellation they are T's submission sequence: no request of T is passed
\* over.
C2_PerTaskOrder ==
    \A s \in Socks, dir \in Directions, T \in Tasks :
        /\ Increasing(Delivered(s, dir, T))
        /\ ~cancels => IsPrefix(Delivered(s, dir, T), SubmittedBy(s, dir, T))

\* the half of C2 that does not ask where an event went: what is sent for
\* T's requests is sent in T's submission order
C2_EmittedInOrder ==
    \A s \in Socks, dir \in Directions, T \in Tasks :
        Increasing(Ids(SelectSeq(log, LAMBDA e : /\ posted[e.id].sock = s
                                                 /\ posted[e.id].dir = dir
                                                 /\ posted[e.id].task = T)))

\* C3: on a stream socket recv_result, once not SUCCESS, never changes, and
\* every receive or marker posted from then on is completed in the call
\* that posts it, with that result and without a recvmsg() for it.
C3_StickyRecvResult ==
    [][/\ \A s \in Socks :
             Stream(s) /\ sock[s].recv_result # "SUCCESS"
                => sock'[s].recv_result = sock[s].recv_result
       /\ \A i \in DOMAIN posted' :
             (/\ posted'[i].dir = "recv" /\ posted'[i].sticky # "SUCCESS"
              /\ sock'[posted'[i].sock].type = "tcp" /\ ~aborted')
                => /\ i \notin io'
                   /\ \E k \in DOMAIN log' : log'[k].id = i
                   /\ \A k \in DOMAIN log' :
                         log'[k].id = i => log'[k].result = posted'[i].sticky]_vars

\* two requests posted after the stream's recv_result had turned
C3_Witness ==
    /\ Running
    /\ \E i, j \in DOMAIN posted :
          /\ i # j /\ posted[i].sock = posted[j].sock /\ Stream(posted[i].sock)
          /\ posted[i].dir = "recv" /\ posted[j].dir = "recv"
          /\ posted[i].sticky # "SUCCESS" /\ posted[j].sticky # "SUCCESS"
          /\ Completed(i) /\ Completed(j)

\* C4: when a recvmsg() of an internal_recv run returns 0 on a stream, the
\* run completes every request of the queue in submission order, those from
\* the one that read 0 onwards with EOF and with no further read; it leaves
\* the queue empty; and recv_result is EOF from then on.
C4_EofCascade ==
    [][\A s \in Socks :
          /\ (/\ Stream(s) /\ sock[s].recv_result = "SUCCESS"
              /\ sock'[s].recv_result = "EOF" /\ inflight'[s] < inflight[s])
                => LET new == SubSeq(log', Len(log) + 1, Len(log'))
                       q == sock[s].recv_list
                   IN  /\ Ids(new) = Ids(q)
                       /\ \E z \in DOMAIN q :
                             /\ \A k \in z..Len(q) : new[k].result = "EOF"
                             /\ \A k \in 1..(z - 1) : new[k].result # "EOF"
                             /\ \A k \in (z + 1)..Len(q) : q[k].id \notin io'
                       /\ sock'[s].recv_list = <<>>
          /\ (Stream(s) /\ sock[s].recv_result = "EOF")
                => sock'[s].recv_result = "EOF"]_vars

\* a cascade over three queued requests, the last two completed with EOF
\* without a read of their own
C4_Witness ==
    \E s \in Socks :
        /\ Stream(s) /\ sock[s].recv_result = "EOF" /\ sock[s].recv_list = <<>>
        /\ \E i, j, k \in DOMAIN posted :
              /\ i < j /\ j < k
              /\ \A x \in {i, j, k} : /\ posted[x].sock = s /\ posted[x].dir = "recv"
                                      /\ posted[x].queued /\ CompletedWith(x, "EOF")
              /\ j \notin io /\ k \notin io

\* the requests queued on S, the category each is queued in and its sender
Queued(S) ==
    {d.id : d \in {S.recv_list[k] : k \in DOMAIN S.recv_list} \cup
                  {S.send_list[k] : k \in DOMAIN S.send_list} \cup
                  {S.accept_list[k] : k \in DOMAIN S.accept_list} \cup
                  {S.connect_ev[k] : k \in DOMAIN S.connect_ev}}
\* those of them a Cancel(task, how) selects
Sel(list, kind, task, how) ==
    IF kind \in how
    THEN {list[k].id : k \in {j \in DOMAIN list : task = NULL \/ list[j].sender = task}}
    ELSE {}
Matching(S, task, how) ==
    Sel(S.recv_list, "RECV", task, how) \cup Sel(S.send_list, "SEND", task, how)
    \cup Sel(S.accept_list, "ACCEPT", task, how)
    \cup Sel(S.connect_ev, "CONNECT", task, how)
\* a step that can be a call of isc_socket_cancel
CancelStep == cancels' /\ Len(pipe') = Len(pipe) + 1 /\ posted' = posted /\ taskq' = taskq /\ w' = w

\* C5: when Cancel(task, how) returns, every request that was queued in a
\* selected category with sender task (any sender if task is null) is out
\* of its queue and has exactly one completion event, CANCELED; and no
\* request ever has a second completion event.
C5_CancelCompletesMatching ==
    [][/\ CancelStep =>
             \A s \in {x \in Socks : Queued(sock[x]) # {} /\ sock[x].fd = pipe'[Len(pipe')]} :
             \A task \in Tasks \cup {NULL}, how \in CancelMasks :
                (/\ Matching(sock[s], task, how) # {}
                 /\ Cancel(s, task, how) /\ ~aborted')
                   => \A id \in Matching(sock[s], task, how) :
                         /\ id \notin Queued(sock'[s])
                         /\ Cardinality({k \in DOMAIN log' : log'[k].id = id}) = 1
                         /\ CompletedWith(id, "CANCELED")'
                         /\ ~Completed(id)
       /\ \A k \in DOMAIN log : log'[k] = log[k]
       /\ \A k \in DOMAIN log' : \A j \in DOMAIN log' :
             log'[k].id = log'[j].id /\ log'[k].result = "CANCELED" => k = j]_vars

\* two requests of different categories cancelled by one call
C5_Witness ==
    /\ Running
    /\ \E i, j \in DOMAIN posted :
          /\ posted[i].dir # posted[j].dir /\ posted[i].sock = posted[j].sock
          /\ posted[i].queued /\ posted[j].queued
          /\ CompletedWith(i, "CANCELED") /\ CompletedWith(j, "CANCELED")

\* C6: Cancel(task, how) with a task leaves every request of another task
\* and every category it does not select as it was: the queues keep them in
\* their order, and the connect slot and the connecting flag of another
\* task's pending connect are not touched.
C6_CancelFrame ==
    [][\A s \in Socks, task \in Tasks, how \in CancelMasks :
          Cancel(s, task, how) /\ ~aborted'
             => LET keep(list, kind) ==
                        IF kind \in how THEN SelectSeq(list, LAMBDA d : d.sender # task)
                        ELSE list
                    S == sock[s]
                IN  /\ sock'[s].recv_list = keep(S.recv_list, "RECV")
                    /\ sock'[s].send_list = keep(S.send_list, "SEND")
                    /\ sock'[s].accept_list = keep(S.accept_list, "ACCEPT")
                    /\ sock'[s].connect_ev = keep(S.connect_ev, "CONNECT")
                    /\ (S.connect_ev # <<>> /\ sock'[s].connect_ev = S.connect_ev)
                          => sock'[s].connecting = S.connecting]_vars

\* C7: the embedded writable_ev of a socket is never dispatched while an
\* earlier dispatch of it is unhandled: at most one writable internal event
\* per socket is in a task queue.
C7_OneWritableEvent == \A s \in Socks : InQueue(s, "w") <= 1

\* C8: the embedded readable_ev of a socket is never dispatched twice at a
\* time: pending_recv and pending_accept are never both set, and at most one
\* readable internal event per socket is in a task queue.
C8_OneReadableEvent ==
    \A s \in Socks :
        /\ sock[s].magic => ~(sock[s].pending_recv /\ sock[s].pending_accept)
        /\ InQueue(s, "r") <= 1

\* a listener with an accept dispatched while a receive is queued on it too
C8_Witness ==
    \E s \in Socks :
        /\ sock[s].magic /\ sock[s].listener /\ sock[s].pending_accept
        /\ sock[s].recv_list # <<>> /\ InQueue(s, "r") = 1

\* C9: between calls, connecting is set if and only if connect_ev is not
\* empty, whatever Connect, internal_connect and Cancel calls were made.
C9_ConnectingIffConnectEv ==
    \A s \in Socks : sock[s].magic => (sock[s].connecting <=> sock[s].connect_ev # <<>>)

\* the socket allocate_socket() made for an accept request still holds the
\* reference it was made with until the NEWCONN event hands it over
Carried(s) ==
    IF \/ \E x \in Socks : \E k \in DOMAIN sock[x].accept_list :
              sock[x].accept_list[k].newsocket = s
       \/ \E t \in Tasks : cont[t] # <<>> /\ cont[t][1].kind = "accept"
                           /\ cont[t][1].dev.newsocket = s
    THEN 1 ELSE 0

\* C10: while the program runs, the references of every socket that was not
\* freed are the attachments its users hold, plus the one an accept request
\* carries for its receiver, plus the internal events dispatched and not yet
\* handled; and they are never below zero.
C10_References ==
    Running => \A s \in Socks :
                  sock[s].magic => /\ sock[s].references = ext[s] + Carried(s) + inflight[s]
                                   /\ sock[s].references >= 0

\* a socket held twice by its users and once more by an internal event
C10_Witness ==
    /\ Running
    /\ \E s \in Socks : /\ sock[s].magic /\ ext[s] > 1 /\ inflight[s] > 0
                        /\ sock[s].references > 2

\* a socket nothing is queued on and no internal event is out for
Idle(S) ==
    /\ EMPTY(S.recv_list) /\ EMPTY(S.send_list) /\ EMPTY(S.accept_list)
    /\ S.connect_ev = <<>>
    /\ ~S.pending_recv /\ ~S.pending_send /\ ~S.pending_accept

C11_ZeroThenIdle ==
    \A s \in Socks : sock[s].magic /\ sock[s].references = 0 => Idle(sock[s])
C11_IdleThenZero ==
    \A s \in Socks : sock[s].magic /\ Idle(sock[s]) => sock[s].references = 0

C12_LastDetachSafe ==
    /\ \A s \in Socks :
          sock[s].magic /\ sock[s].references = 0 => DestroyInsists(sock[s])
    /\ mgr.destroyer = "done" => w.pc = "exit" /\ kfd = {}

\* the second half of C12 alone: isc_socketmgr_destroy returns with the
\* watcher gone and no socket descriptor open
C12_ShutdownClean == mgr.destroyer = "done" => w.pc = "exit" /\ kfd = {}

\* the descriptors a step closes, and the steps that are the watcher's
Closes == kfd \ kfd'
ByWatcher == w.pc \in {"select", "ctl", "scan"} /\ w'.pc \in {"ctl", "scan"}
\* the descriptors the watcher is blocked on in select()
InSelect == IF w.pc = "select" THEN w.readfds \cup w.writefds ELSE {}

\* C13 as the specification words it: a socket descriptor is closed only by
\* the watcher thread and only when its fdstate was CLOSE_PENDING; a MANAGED
\* one is never closed; none is closed while in the sets of a select() the
\* watcher is blocked in.
C13_OnlyWatcherCloses ==
    [][\A fd \in Closes :
          /\ mgr.fdstate[fd] = CLOSE_PENDING /\ mgr'.fdstate[fd] = CLOSED
          /\ ByWatcher]_vars

\* C13, as far as the code goes: a MANAGED descriptor is never closed; a
\* descriptor is closed by the watcher, which found it CLOSE_PENDING and
\* marks it CLOSED, or by isc_socketmgr_destroy after the join, which found
\* it CLOSE_PENDING, or by internal_accept, which got it from accept() and
\* never registered it; and a descriptor another thread than the watcher
\* closes is in no set the watcher is blocked on.
C13_ClosesAreSafe ==
    [][\A fd \in Closes :
          /\ mgr.fdstate[fd] # MANAGED
          /\ \/ /\ ByWatcher
                /\ mgr.fdstate[fd] = CLOSE_PENDING /\ mgr'.fdstate[fd] = CLOSED
             \/ /\ mgr.destroyer = "join" /\ mgr'.destroyer = "done" /\ w.pc = "exit"
                /\ mgr.fdstate[fd] = CLOSE_PENDING
             \/ /\ \E t \in Tasks : /\ cont[t] # <<>> /\ cont'[t] = <<>>
                                    /\ cont[t][1].kind = "accept" /\ cont[t][1].fd = fd
                /\ mgr.fdstate[fd] = CLOSED /\ mgr.fds[fd] = NULL
                /\ fd \notin InSelect]_vars

\* the watcher has closed one descriptor and isc_socketmgr_destroy another
C13_Witness ==
    /\ Running /\ mgr.destroyer = "done"
    /\ \E fd, g \in SockFds :
          /\ mgr.fdstate[fd] = CLOSE_PENDING /\ fd \notin kfd
          /\ mgr.fdstate[g] = CLOSED /\ g \notin kfd /\ g <= mgr.maxfd

\* C14: whenever the manager lock is free, for every descriptor: fdstate is
\* MANAGED if and only if fds holds a socket, whatever isc_socket_create,
\* internal_accept's registration, destroy() and the watcher's closes did,
\* a descriptor number used again included.
C14_ManagedIffSocket ==
    MgrLockFree => \A fd \in FDs : mgr.fdstate[fd] = MANAGED <=> mgr.fds[fd] # NULL

\* C14 for the descriptors sockets get, which leaves out the last entry of
\* the table, the one destroy() of a socket without descriptor writes into
C14_ManagedIffSocketInUse ==
    MgrLockFree => \A fd \in SockFds : mgr.fdstate[fd] = MANAGED <=> mgr.fds[fd] # NULL

\* a descriptor number registered again for a second socket after the first
\* socket that had it was destroyed
C14_ReuseSeen ==
    \E s, t \in Socks :
        /\ s # t /\ ~sock[s].magic /\ sock[t].magic
        /\ sock[s].fd = sock[t].fd /\ sock[t].fd \in SockFds
        /\ mgr.fdstate[sock[t].fd] = MANAGED /\ mgr.fds[sock[t].fd] = t

\* the descriptors registered for a live socket
Managed(M) == {fd \in FDs : M.fdstate[fd] = MANAGED}

\* C15: whenever the manager lock is free, nsockets is the number of
\* descriptors in state MANAGED, and it never goes below zero: destroy()
\* decrements it only for a socket it was incremented for, the sockets of a
\* failed accept() included.
C15_NsocketsCountsManaged ==
    MgrLockFree => mgr.nsockets = Cardinality(Managed(mgr)) /\ mgr.nsockets >= 0

\* C15, the part that holds: nsockets never counts more than the MANAGED
\* descriptors
C15_NsocketsAtMostManaged ==
    MgrLockFree => mgr.nsockets <= Cardinality(Managed(mgr))

\* the sockets that exist
Live == {s \in Socks : sock[s].magic}

\* a change of fdstate[fd] in a step
FdstateStep(fd) == <<mgr.fdstate[fd], mgr'.fdstate[fd]>>

\* the descriptor is closed and out of both sets the watcher selects on
ClosedAndUnwatched(fd) ==
    /\ mgr.fdstate[fd] = CLOSED
    /\ fd \notin kfd
    /\ fd \notin mgr.read_fds \cup mgr.write_fds

C17_ManagerDestroyTerminates ==
    /\ [][mgr.destroyer = "wait" /\ mgr'.destroyer = "join" =>
            mgr.nsockets = 0 /\ pipe' = Append(pipe, SELECT_POKE_SHUTDOWN)]_vars
    /\ [](mgr.destroyer = "done" => w.pc = "exit" /\ LeftPending(mgr) \cap kfd = {})
    /\ (mgr.destroyer = "wait" /\ Live = {} /\ Running)
           ~> (mgr.destroyer = "done" \/ aborted)

\* C17 without the termination: what isc_socketmgr_destroy does when it
\* gets past its wait
C17_ShutdownAfterWait ==
    /\ [][mgr.destroyer = "wait" /\ mgr'.destroyer = "join" =>
            mgr.nsockets = 0 /\ pipe' = Append(pipe, SELECT_POKE_SHUTDOWN)]_vars
    /\ [](mgr.destroyer = "done" => w.pc = "exit" /\ LeftPending(mgr) \cap kfd = {})

\* every socket is destroyed, isc_socketmgr_destroy waits, and nsockets will
\* never be 0
C17_StuckSeen ==
    mgr.destroyer = "wait" /\ Live = {} /\ Running /\ mgr.nsockets # 0

\* C17's termination where the count is right: with every socket destroyed
\* and nsockets = 0 a waiting isc_socketmgr_destroy returns
C17_TerminatesWhenCounted ==
    (mgr.destroyer = "wait" /\ Live = {} /\ Running /\ mgr.nsockets = 0)
        ~> (mgr.destroyer = "done" \/ aborted)

\* the watcher is blocked in select()
InSelectCall == lk.todo["watcher"] # <<>> /\ Head(lk.todo["watcher"]) = SELECT

\* C18: while the watcher is blocked in select() it holds no socket lock and
\* not the manager lock.
C18_SelectHoldsNoLock == InSelectCall => lk.held["watcher"] = {}

\* C18: the watcher is in select() while one thread is inside the manager
\* lock and another inside a socket lock
C18_Witness ==
    /\ InSelectCall
    /\ \E t \in Threads : lk.held[t] = {MgrLock}
    /\ \E t \in Threads, s \in Socks : lk.held[t] = {SockLock(s)}

\* thread t is about to take lock l
Takes(t, l) ==
    /\ l \notin lk.held[t] /\ l \in lk'.held[t]

\* thread t waits for a lock thread u holds
WaitsFor(t, u) ==
    /\ t # u /\ lk.todo[t] # <<>>
    /\ Head(lk.todo[t])[1] = "LOCK" /\ Head(lk.todo[t])[2] \in lk.held[u]

\* a set of threads each of which waits for a lock another one of them holds
LockCycle == \E C \in SUBSET Threads : C # {} /\ \A t \in C : \E u \in C : WaitsFor(t, u)

\* C19: no thread takes the manager lock while it holds a socket lock; the
\* only thread that takes a lock while it holds one is the watcher, taking a
\* socket lock inside the manager lock; and no threads ever wait for each
\* other's locks in a cycle.
C19_LockOrder ==
    /\ [][\A t \in Threads :
            /\ Takes(t, MgrLock) => lk.held[t] = {}
            /\ \A s \in Socks :
                  Takes(t, SockLock(s)) /\ lk.held[t] # {} =>
                      t = "watcher" /\ lk.held[t] = {MgrLock}]_vars
    /\ [](~LockCycle)

\* C19: the watcher holds the manager lock and a socket lock, one thread
\* waits for that socket lock and another for the manager lock
C19_Witness ==
    \E s \in Socks :
        /\ lk.held["watcher"] = {MgrLock, SockLock(s)}
        /\ \E t \in Threads : WaitsFor(t, "watcher") /\ Head(lk.todo[t]) = LOCK(SockLock(s))
        /\ \E t \in Threads : WaitsFor(t, "watcher") /\ Head(lk.todo[t]) = LOCK(MgrLock)

\* the completion events sent in a step
SentNow == SubSeq(log', Len(log) + 1, Len(log'))

\* a request was posted in the step
PostStep == Len(posted') = Len(posted) + 1

\* what the call of isc_socket_connect made in this step, by task t on
\* socket s with connect() answering e, has to have done
ConnectOutcome(s, t, e) ==
    LET S == sock[s]
        S1 == sock'[s]
        ret == posted'[Len(posted')].ret
        slot_kept == S1.connecting = S.connecting /\ S1.connect_ev = S.connect_ev
        one(result) == /\ Len(SentNow) = 1
                       /\ SentNow[1].id = NextId /\ SentNow[1].to = t
                       /\ SentNow[1].result = result
    IN  CASE e = "0" ->
               /\ ret = "SUCCESS" /\ one("SUCCESS") /\ S1.connected
               /\ slot_kept /\ pipe' = pipe
          [] e \in {"EINPROGRESS", "EAGAIN", "EWOULDBLOCK", "EINTR"} ->
               /\ ret = "SUCCESS" /\ SentNow = <<>>
               /\ S1.connecting /\ Len(S1.connect_ev) = 1
               /\ S1.connect_ev[1].id = NextId /\ S1.connect_ev[1].sender = t
               /\ pipe' = Append(pipe, S.fd)
          [] e = "ECONNREFUSED" ->
               ret = "SUCCESS" /\ one("CONNREFUSED") /\ slot_kept /\ pipe' = pipe
          [] e = "ENETUNREACH" ->
               ret = "SUCCESS" /\ one("NETUNREACH") /\ slot_kept /\ pipe' = pipe
          [] OTHER ->
               ret = "UNEXPECTED" /\ SentNow = <<>> /\ slot_kept /\ pipe' = pipe

\* C20: a call of isc_socket_connect does one of four things, by what
\* connect() answers: success sends one SUCCESS completion, sets connected
\* and returns SUCCESS; a soft error or EINPROGRESS stores the request in
\* connect_ev, sets connecting, pokes the watcher and sends nothing;
\* ECONNREFUSED or ENETUNREACH sends one completion with that result and
\* returns SUCCESS; any other error returns UNEXPECTED, sends nothing and
\* leaves connecting and connect_ev as they were.
C20_ConnectOutcomes ==
    [][\A s \in Socks, t \in Tasks, e \in ConnectErrnos :
          PostStep /\ Connect(s, t, e) => ConnectOutcome(s, t, e)]_vars

\* C20 for the calls that find the connect slot empty
C20_ConnectOutcomesEmptySlot ==
    [][\A s \in Socks, t \in Tasks, e \in ConnectErrnos :
          PostStep /\ sock[s].connect_ev = <<>> /\ Connect(s, t, e) =>
              ConnectOutcome(s, t, e)]_vars

\* how many completion events were sent for request id
TimesCompleted(id) == Len(SelectSeq(log, LAMBDA e : e.id = id))

\* a connect posted on socket s was completed with ISC_R_CONNREFUSED
Refused(s) ==
    \E id \in DOMAIN posted :
        /\ posted[id].sock = s /\ posted[id].dir = "connect"
        /\ CompletedWith(id, "CONNREFUSED")

\* the request posted in this step
JustPosted == posted'[Len(posted')]

\* C21: a connect that was completed with CONNREFUSED got exactly one
\* completion event, and isc_socket_connect is not called with effect again
\* on a socket one of whose connects was refused.
C21_RefusedIsFinal ==
    /\ [](\A id \in DOMAIN posted :
            posted[id].dir = "connect" /\ CompletedWith(id, "CONNREFUSED") =>
                TimesCompleted(id) = 1)
    /\ [][\A s \in Socks :
            PostStep /\ JustPosted.sock = s /\ JustPosted.dir = "connect" => ~Refused(s)]_vars

\* C21, the delivery alone: exactly one completion event for a refused connect
C21_RefusedOnce ==
    \A id \in DOMAIN posted :
        posted[id].dir = "connect" /\ CompletedWith(id, "CONNREFUSED") =>
            TimesCompleted(id) = 1

\* the request in the connect slot of socket s is replaced by another one
Overwritten(s) ==
    /\ sock[s].connect_ev # <<>> /\ sock'[s].connect_ev # <<>>
    /\ sock'[s].connect_ev[1].id # sock[s].connect_ev[1].id

\* C22: a socket has at most one connect outstanding: isc_socket_connect
\* does not go through while a request is stored in connect_ev, and
\* connect_ev is never overwritten while it holds a request, whatever
\* isc_socket_connect, isc_socket_cancel and internal_connect did before.
C22_OneConnect ==
    [][\A s \in Socks :
          /\ ~Overwritten(s)
          /\ PostStep /\ JustPosted.sock = s /\ JustPosted.dir = "connect" =>
                 sock[s].connect_ev = <<>>]_vars

\* C22 as long as isc_socket_cancel was not called
C22_OneConnectWithoutCancel ==
    [][~cancels' =>
          \A s \in Socks :
              /\ ~Overwritten(s)
              /\ PostStep /\ JustPosted.sock = s /\ JustPosted.dir = "connect" =>
                     sock[s].connect_ev = <<>>]_vars

\* the accept requests posted so far
Accepts == {id \in DOMAIN posted : posted[id].dir = "accept"}

\* task t is in internal_accept and has reached accept() with errno e
AtAccept(t, e) ==
    /\ InternalAccept(t, e)
    /\ LET S == sock[Head(taskq[t])[1]]
       IN  S.magic /\ S.references > 1 /\ ~EMPTY(S.accept_list)

\* what is sent for an accept request: nothing before it is queued, no
\* second event, a result that is SUCCESS, UNEXPECTED or CANCELED; the socket
\* a SUCCESS announces is registered, MANAGED, with references 1; a soft
\* error of accept() leaves the queue as it is and pokes the watcher
AcceptEventsWellFormed ==
    /\ [](\A id \in Accepts :
            /\ posted[id].ret = "SUCCESS" /\ posted[id].queued
            /\ TimesCompleted(id) <= 1
            /\ \A k \in DOMAIN log :
                  log[k].id = id => log[k].result \in {"SUCCESS", "UNEXPECTED", "CANCELED"})
    /\ [][\A t \in Tasks :
            AcceptTail(t) /\ cont[t][1].result = "SUCCESS" =>
                LET n == cont[t][1].dev.newsocket
                    fd == sock'[n].fd
                IN  /\ fd \in SockFds /\ fd \in kfd'
                    /\ mgr'.fdstate[fd] = MANAGED /\ mgr'.fds[fd] = n
                    /\ sock'[n].magic /\ sock'[n].references = 1
                    /\ SentNow = <<Done(cont[t][1].dev, "SUCCESS", cont[t][1].dev.sender, TRUE)>>]_vars
    /\ [][\A t \in Tasks, e \in {"EAGAIN", "EWOULDBLOCK", "EINTR"} :
            AtAccept(t, e) =>
                LET s == Head(taskq[t])[1]
                IN  /\ sock'[s].accept_list = sock[s].accept_list
                    /\ pipe' = Append(pipe, sock[s].fd)
                    /\ SentNow = <<>>]_vars

\* C23: isc_socket_accept returns SUCCESS once the request is queued, and
\* the request gets one completion event (never a second one; and, with
\* threads that run and connections that arrive, eventually one), which is
\* a new connection (SUCCESS), UNEXPECTED or CANCELED; when a new connection is
\* announced the new socket is registered, MANAGED, with references 1; and
\* a soft error of accept() leaves the queue as it is and pokes the watcher.
C23_AcceptCompletes ==
    /\ AcceptEventsWellFormed
    /\ \/ []<><<CancelStep>>_vars
       \/ \A id \in 1..MaxReq : (id \in Accepts) ~> Completed(id)

\* the same as long as the program has not died of a failed INSIST
C23_AcceptCompletesWhileRunning ==
    /\ AcceptEventsWellFormed
    /\ \/ []<><<CancelStep>>_vars
       \/ \A id \in 1..MaxReq : (id \in Accepts) ~> (Completed(id) \/ aborted)

\* C23: an accept announced a new connection whose socket is registered
C23_Witness ==
    \E id \in Accepts, n \in Socks :
        /\ CompletedWith(id, "SUCCESS")
        /\ sock[n].magic /\ sock[n].fd \in SockFds /\ mgr.fds[sock[n].fd] = n
        /\ sock[n].references = 1 /\ ~sock[n].listener


(* ------------------- receives and sends, byte counts -------------------- *)
\* the minimum isc_socket_recv works with for a caller's minimum m
EffectiveMinimum(m, length) == IF m = 0 THEN length ELSE m
\* the receive requests waiting in the queue of socket s
RecvQueued(s) ==
    {k \in DOMAIN sock[s].recv_list : sock[s].recv_list[k].type = "RECVDONE"}
SucceededIn(ev) == \E k \in DOMAIN ev : ev[k].result = "SUCCESS"

\* C24: a stream receive with minimum m (0 standing for the whole buffer) is
\* completed with SUCCESS only when its count n has reached that minimum or
\* its buffer is full; short of that it stays where it is in the queue, at
\* the head once it has read anything, with n growing from read to read and
\* never beyond the buffer's length.
C24_StreamRecvMinimum ==
    /\ [](\A s \in Socks : Stream(s) =>
            \A k \in RecvQueued(s) :
                LET dev == sock[s].recv_list[k]
                IN  /\ dev.n < dev.minimum /\ dev.n < dev.length
                    /\ dev.n > 0 => k = 1
                    /\ \A o \in IoOutcomes :
                          LET r == doio_recv(sock[s], dev, o)
                          IN  /\ SucceededIn(r.ev) =>
                                    \/ r.dev.n >= dev.minimum
                                    \/ r.dev.n = dev.length
                              /\ dev.n <= r.dev.n /\ r.dev.n <= dev.length
                              /\ r.ret = DOIO_SOFT =>
                                    /\ r.ev = <<>>
                                    /\ r.S.recv_list = Store(sock[s].recv_list, r.dev))
    /\ [][\A s \in Socks : Stream(s) =>
            /\ \A k \in RecvQueued(s) :
                  LET dev == sock[s].recv_list[k]
                  IN  Linked(sock'[s].recv_list, dev.id) =>
                          \E j \in 1..k :
                              /\ sock'[s].recv_list[j].id = dev.id
                              /\ sock'[s].recv_list[j].n >= dev.n
                              /\ sock'[s].recv_list[j].minimum = dev.minimum
            /\ PostStep /\ JustPosted.sock = s /\ JustPosted.dir = "recv" =>
                  \A t \in Tasks, l \in Lens, m \in 0..MaxLen, o \in IoOutcomes :
                      m <= l /\ Recv(s, t, l, m, o) =>
                          LET cc == IF o.errno = "OK" THEN Min(o.avail, l) ELSE 0
                              R == sock'[s].recv_list
                          IN  /\ SucceededIn(SentNow) =>
                                    cc >= EffectiveMinimum(m, l) \/ cc = l
                              /\ JustPosted.queued =>
                                    /\ R[Len(R)].minimum = EffectiveMinimum(m, l)
                                    /\ R[Len(R)].length = l
                                    /\ R[Len(R)].n \in {0, cc}]_vars

\* one stream receive was completed with SUCCESS while the next one, which
\* asked for its whole buffer, has part of it and waits at the head
C24_Witness ==
    \E s \in Socks, id \in DOMAIN posted :
        /\ Stream(s) /\ posted[id].sock = s /\ posted[id].dir = "recv"
        /\ CompletedWith(id, "SUCCESS")
        /\ ~EMPTY(sock[s].recv_list)
        /\ sock[s].recv_list[1].type = "RECVDONE"
        /\ sock[s].recv_list[1].n > 0
        /\ sock[s].recv_list[1].minimum = sock[s].recv_list[1].length


\* what a recvmsg() that answers o does to the receive at the head of the
\* queue of datagram socket s
HeadRecv(s, o) == doio_recv(sock[s], Head(sock[s].recv_list), o)
DatagramWaits(s) ==
    /\ sock[s].magic /\ sock[s].type = "udp"
    /\ ~EMPTY(sock[s].recv_list)
    /\ Head(sock[s].recv_list).type = "RECVDONE"
CompletesHead(s, o) ==
    LET dev == Head(sock[s].recv_list)
        r == HeadRecv(s, o)
    IN  /\ r.ret = DOIO_SUCCESS
        /\ r.ev = <<Done(dev, "SUCCESS", dev.sender, dev.attached)>>
        /\ ~Linked(r.S.recv_list, dev.id)

\* C25: on a datagram socket every recvmsg() that returns a datagram, of any
\* length from 0 up, completes the receive at the head of the queue with
\* SUCCESS.
C25_DatagramCompletesHead ==
    \A s \in Socks : DatagramWaits(s) =>
        \A o \in IoOutcomes : o.errno = "OK" => CompletesHead(s, o)

\* the same for the datagrams that carry at least one byte
C25_DatagramWithDataCompletesHead ==
    \A s \in Socks : DatagramWaits(s) =>
        \A o \in IoOutcomes : o.errno = "OK" /\ o.avail > 0 => CompletesHead(s, o)


\* the send requests waiting in the queue of socket s
SendQueued(s) ==
    {k \in DOMAIN sock[s].send_list : sock[s].send_list[k].type = "SENDDONE"}
\* the requests a kernel call was made for in this step
TriedNow == io' \ io

\* C26: a send is completed with SUCCESS only when its count n equals the
\* length of its payload; after a short write it waits at the head of the
\* send queue with the bytes written so far in n, the next sendmsg() for it
\* is given what lies beyond n, and no sendmsg() is made for a request
\* behind it while it waits.
C26_SendWholePayload ==
    /\ [](\A s \in Socks : sock[s].magic =>
            \A k \in SendQueued(s) :
                LET dev == sock[s].send_list[k]
                IN  /\ dev.n < dev.length
                    /\ dev.n > 0 => k = 1
                    /\ \A o \in IoOutcomes :
                          LET r == doio_send(sock[s], dev, o)
                          IN  /\ SucceededIn(r.ev) => r.dev.n = dev.length
                              /\ o.errno = "OK" =>
                                    r.dev.n = dev.n + Min(o.avail, dev.length - dev.n)
                              /\ o.errno # "OK" => r.dev.n = dev.n
                              /\ r.ret = DOIO_SOFT =>
                                    /\ r.ev = <<>>
                                    /\ r.S.send_list = Store(sock[s].send_list, r.dev))
    /\ [][\A s \in Socks : sock[s].magic =>
            /\ \A k \in DOMAIN sock[s].send_list :
                  LET dev == sock[s].send_list[k]
                  IN  /\ Linked(sock'[s].send_list, dev.id) =>
                            /\ \E j \in 1..k :
                                  /\ sock'[s].send_list[j].id = dev.id
                                  /\ sock'[s].send_list[j].n >= dev.n
                            /\ \A j \in DOMAIN sock[s].send_list :
                                  j > k => sock[s].send_list[j].id \notin TriedNow
                      /\ dev.id \in TriedNow =>
                            \A j \in 1..(k - 1) :
                                ~Linked(sock'[s].send_list, sock[s].send_list[j].id)
            /\ PostStep /\ JustPosted.sock = s /\ JustPosted.dir = "send" =>
                  /\ Len(posted') \in TriedNow => EMPTY(sock[s].send_list)
                  /\ \A t \in Tasks, l \in Lens, o \in IoOutcomes :
                        Send(s, t, l, o) =>
                            LET cc == IF o.errno = "OK" THEN Min(o.avail, l) ELSE 0
                                L == sock'[s].send_list
                            IN  /\ SucceededIn(SentNow) => cc = l
                                /\ JustPosted.queued =>
                                      /\ L[Len(L)].length = l
                                      /\ L[Len(L)].n \in {0, cc}
                                      /\ L[Len(L)].n > 0 => Len(L) = 1]_vars

\* one send was completed with SUCCESS while the next one, written in part,
\* waits at the head of the queue
C26_Witness ==
    \E s \in Socks, id \in DOMAIN posted :
        /\ sock[s].magic /\ posted[id].sock = s /\ posted[id].dir = "send"
        /\ CompletedWith(id, "SUCCESS")
        /\ ~EMPTY(sock[s].send_list)
        /\ sock[s].send_list[1].type = "SENDDONE"
        /\ sock[s].send_list[1].n > 0


(* ------------------------ where the events go -------------------------- *)
\* C27: every completion event is sent to the task that was passed in the
\* call that posted its request, whichever path completes it.
C27_SentToCallersTask ==
    \A k \in DOMAIN log : log[k].to = posted[log[k].id].task

\* the events that go elsewhere are those of requests completed in the call
\* that posted them, and they go to the socket's address
C27_SentToCallersTaskOnceQueued ==
    \A k \in DOMAIN log :
        log[k].to # posted[log[k].id].task =>
            log[k].to = SockAsSender /\ ~posted[log[k].id].queued


(* ------------------------------ markers -------------------------------- *)
ListOf(S, dir) == IF dir = "recv" THEN S.recv_list ELSE S.send_list
Sticky(S, dir) == IF dir = "recv" THEN S.recv_result ELSE S.send_result
\* request id is a marker waiting in the queue of (s, dir)
MarkerIn(s, dir, id) ==
    \E p \in DOMAIN ListOf(sock[s], dir) :
        /\ ListOf(sock[s], dir)[p].id = id
        /\ ListOf(sock[s], dir)[p].type \in {"RECVMARK", "SENDMARK"}
\* the step is a call of isc_socket_recvmark / isc_socket_sendmark on s
\* that completed its marker at once
MarkPosted(s, dir) ==
    /\ PostStep /\ JustPosted.sock = s /\ JustPosted.dir = dir
    /\ ~JustPosted.queued /\ SentNow # <<>>
    /\ \E t \in Tasks, crash \in BOOLEAN :
          IF dir = "recv" THEN RecvMark(s, t, crash) ELSE SendMark(s, t, crash)
\* the places in this step's events of the markers of (s, dir)
MarkersNow(s, dir) ==
    {k \in DOMAIN SentNow :
        \/ MarkerIn(s, dir, SentNow[k].id)
        \/ SentNow[k].id = Len(posted') /\ MarkPosted(s, dir)}
\* the k-th event of this step comes after the events of every request
\* posted on (s, dir) before its own and before those of every later one
InPostingOrder(s, dir, k) ==
    LET m == SentNow[k].id
        Earlier == {log'[j].id : j \in 1..(Len(log) + k - 1)}
    IN  \A id \in DOMAIN posted' :
            posted'[id].sock = s /\ posted'[id].dir = dir =>
                /\ id < m => id \in Earlier
                /\ id > m => id \notin Earlier
\* the k-th event of this step carries the sticky result of (s, dir) as it
\* stood when the event was sent: the new one if an event sent before it in
\* the step already carries it, the old one otherwise
CarriesSticky(s, dir, k) ==
    LET pre == Sticky(sock[s], dir)
        post == Sticky(sock'[s], dir)
        turned == /\ pre # post
                  /\ \E j \in 1..(k - 1) :
                        /\ SentNow[j].result = post
                        /\ posted'[SentNow[j].id].sock = s
                        /\ posted'[SentNow[j].id].dir = dir
    IN  SentNow[k].result = IF turned THEN post ELSE pre

PokeTaken(fd) ==
    /\ w.pc \in {"select", "ctl"} /\ w'.pc = "ctl"
    /\ pipe # <<>> /\ Head(pipe) = fd /\ pipe' = Tail(pipe)
    /\ mgr.fdstate[fd] = MANAGED /\ mgr.fds[fd] \in Socks

\* C30: when the watcher handles a poke for a MANAGED descriptor, it sets
\* the descriptor's bit in read_fds if the recv queue or the accept queue has
\* a request and neither pending_recv nor pending_accept is set, and clears
\* it otherwise; the read bits of the other descriptors stay as they are.
C30_ReadBitOnPoke ==
    [][\A fd \in SockFds : PokeTaken(fd) =>
          LET S == sock[mgr.fds[fd]]
          IN  /\ fd \in mgr'.read_fds <=>
                    /\ S.recv_list # <<>> \/ S.accept_list # <<>>
                    /\ ~S.pending_recv /\ ~S.pending_accept
              /\ mgr'.read_fds \ {fd} = mgr.read_fds \ {fd}]_vars

\* the watcher has just cleared the read bit of a socket whose accept request
\* is still queued, because the readable event is on its way to a task
C30_Witness ==
    \E s \in Socks :
        /\ w.pc = "ctl" /\ pipe = <<>>
        /\ sock[s].magic /\ sock[s].fd \in SockFds
        /\ mgr.fdstate[sock[s].fd] = MANAGED
        /\ sock[s].accept_list # <<>> /\ sock[s].pending_accept
        /\ sock[s].fd \notin mgr.read_fds


(* ------------------------------ wake-ups ------------------------------- *)
\* C29: with the watcher and the tasks scheduled fairly and descriptors that
\* are ready, every request that was queued is completed in the end.
C29_NoLostWakeup ==
    \A id \in 1..MaxReq :
        (id \in DOMAIN posted /\ posted[id].queued) ~> Completed(id)

\* the same for the behaviours in which isc_socket_connect is not called
ConnectPosted == \E i \in DOMAIN posted : posted[i].dir = "connect"
C29_NoLostWakeupWithoutConnect ==
    \A id \in 1..MaxReq :
        (id \in DOMAIN posted /\ posted[id].queued) ~> (Completed(id) \/ ConnectPosted)

\* and for the connect requests themselves
C29_ConnectWoken ==
    \A id \in 1..MaxReq :
        (id \in DOMAIN posted /\ posted[id].queued /\ posted[id].dir = "connect")
            ~> Completed(id)


\* C31: when the watcher handles a poke for a MANAGED descriptor, it sets
\* the descriptor's bit in write_fds if the send queue has a request or
\* connecting is set, and pending_send is not set; it clears it otherwise.
C31_WriteBitOnPoke ==
    [][\A fd \in SockFds : PokeTaken(fd) =>
          LET S == sock[mgr.fds[fd]]
          IN  fd \in mgr'.write_fds <=>
                  /\ S.send_list # <<>> \/ S.connecting
                  /\ ~S.pending_send]_vars

\* what the watcher's test comes to: connecting sets the bit whatever
\* pending_send says
C31_WriteBitOnPokeOrConnecting ==
    [][\A fd \in SockFds : PokeTaken(fd) =>
          LET S == sock[mgr.fds[fd]]
          IN  /\ fd \in mgr'.write_fds <=>
                    \/ S.send_list # <<>> /\ ~S.pending_send
                    \/ S.connecting
              /\ mgr'.write_fds \ {fd} = mgr.write_fds \ {fd}]_vars

\* the request dispatch_read, dispatch_accept, dispatch_write or
\* dispatch_connect takes the task from: the head of the queue, or the
\* connect slot
HasWork(S, rset, wset) ==
    /\ rset /\ ~SOCK_DEAD(S) =>
          IF S.listener THEN ~EMPTY(S.accept_list) ELSE ~EMPTY(S.recv_list)
    /\ wset /\ ~SOCK_DEAD(S) =>
          IF S.connecting THEN S.connect_ev # <<>> ELSE ~EMPTY(S.send_list)

\* the watcher's scan reaches a socket's descriptor that select() reported
ScanOf(i, rset, wset) ==
    /\ w' # w \/ aborted' # aborted
    /\ mgr.fdstate[i] = MANAGED /\ mgr.fds[i] # NULL /\ ~SelectFails
    /\ \E crash \in BOOLEAN : WatcherScan(i, rset, wset, crash)

\* C32: when the watcher's scan dispatches for a descriptor select() reported,
\* the socket has a request of the kind dispatched: a receive (an accept on a
\* listener) for a readable descriptor, the connect (when connecting) or a
\* send for a writable one; whatever Cancel and the handlers did since
\* select() returned.
C32_DispatchHasWork ==
    [][\A i \in SockFds, rset, wset \in BOOLEAN :
          ScanOf(i, rset, wset) => HasWork(sock[mgr.fds[i]], rset, wset)]_vars

\* a scan that found no request stops at the INSIST of the dispatch function
C32_NoWorkAborts ==
    [][\A i \in SockFds, rset, wset \in BOOLEAN :
          ScanOf(i, rset, wset) /\ ~HasWork(sock[mgr.fds[i]], rset, wset)
              => aborted']_vars

\* the completion events of this step for receives and sends on a connected
\* stream socket
StreamEvents ==
    {k \in DOMAIN SentNow :
        LET P == posted'[SentNow[k].id]
        IN  /\ P.dir \in Directions
            /\ sock[P.sock].type = "tcp" /\ sock[P.sock].connected}

\* a sticky result of a stream socket stays, and every completion of the
\* direction sent from then on carries it, apart from those of Cancel
StickyReplayed ==
    \A s \in Socks, dir \in Directions :
        sock[s].type = "tcp" /\ Sticky(sock[s], dir) # "SUCCESS" /\ sock'[s].magic =>
            /\ Sticky(sock'[s], dir) = Sticky(sock[s], dir)
            /\ \A k \in DOMAIN SentNow :
                  LET P == posted'[SentNow[k].id]
                  IN  P.sock = s /\ P.dir = dir /\ SentNow[k].result # "CANCELED"
                          => SentNow[k].result = Sticky(sock[s], dir)

IoEventsOf(s) ==
    {k \in DOMAIN log : posted[log[k].id].sock = s /\ posted[log[k].id].dir \in Directions}

\* C34: on a datagram socket, connected or not, a failure of recvmsg() or
\* sendmsg() other than ENOBUFS is soft: no completion event reports it (a
\* request completes with SUCCESS, CANCELED or NORESOURCES only) and no
\* sticky result is set.
C34_DatagramErrorsSoft ==
    \A s \in Socks :
        sock[s].magic /\ sock[s].type = "udp" =>
            /\ sock[s].recv_result = "SUCCESS" /\ sock[s].send_result = "SUCCESS"
            /\ \A k \in IoEventsOf(s) :
                  log[k].result \in {"SUCCESS", "CANCELED", "NORESOURCES"}

\* what is soft: ECONNREFUSED on a datagram socket that is not connected
C34_UnconnectedRefusedIsSoft ==
    \A s \in Socks :
        sock[s].magic /\ sock[s].type = "udp" /\ ~sock[s].connected =>
            \A k \in IoEventsOf(s) : log[k].result # "CONNREFUSED"

(***************************************************************************)
(* Stale internal events.  Task 1 posts requests that have to wait; once   *)
(* the watcher has sent an internal event for one of them, the requests    *)
(* are cancelled, all of them, and the event is still in task 1's queue.   *)
(* From then on task 2 posts, and only while such an event is waiting, so  *)
(* every event task 1 handles after the cancel was sent for a request      *)
(* that is gone.                                                           *)
(***************************************************************************)
\* the work the internal event `slot` of socket s was sent for is gone
StaleEvent(s, slot) ==
    /\ InQueue(s, slot) > 0
    /\ IF slot = "r"
       THEN IF sock[s].listener THEN EMPTY(sock[s].accept_list)
                                ELSE EMPTY(sock[s].recv_list)
       ELSE IF sock[s].wev_action = "internal_connect"
            THEN sock[s].connect_ev = <<>>
            ELSE EMPTY(sock[s].send_list)

\* whose turn it is to post
Turn(s, t) ==
    IF cancels THEN t = 2 /\ taskq[1] # <<>> ELSE t = 1

NextStale ==
    \/ nalloc = 0 /\ Create("tcp")
    \/ \E s \in TheSock : posted = <<>> /\ Listen(s)
    \/ \E s \in TheSock, t \in Tasks :
          Few /\ Turn(s, t) /\ Recv(s, t, MaxLen, 0, NothingYet)
    \/ \E s \in TheSock, t \in Tasks :
          Few /\ Turn(s, t) /\ Send(s, t, MaxLen, NothingYet)
    \/ \E s \in TheSock, t \in Tasks :
          Few /\ Turn(s, t) /\ Accept(s, t)
    \/ \E s \in TheSock, t \in Tasks :
          Few /\ Turn(s, t) /\ Connect(s, t, "EINPROGRESS")
    \/ \E s \in TheSock :
          /\ ~cancels /\ taskq[1] # <<>>
          /\ Cancel(s, NULL, CancelKinds)
    \/ Watcher
    \/ \E t \in Tasks : InternalRecv(t, IoBrief)
    \/ \E t \in Tasks : InternalSend(t, IoBrief)
    \/ \E t \in Tasks, e \in {"0", "EAGAIN"} : InternalAccept(t, e)
    \/ \E t \in Tasks, e \in {"0", "ECONNREFUSED"} : InternalConnect(t, e)
    \/ \E t \in Tasks : AcceptTail(t)
    \/ \E t \in Tasks : ConnectTail(t)

SpecStale == Init /\ [][NextStale]_vars

\* task 1 handles an internal event that was waiting when the requests were
\* cancelled
StaleRun ==
    /\ cancels /\ taskq[1] # <<>> /\ taskq'[1] = Tail(taskq[1])

\* the handler did no more than clear the pending bit and let go of the
\* socket: no completion event, no request touched
NothingDone(s) ==
    /\ log' = log /\ cont' = cont /\ pipe' = pipe
    /\ sock'[s].recv_list = sock[s].recv_list
    /\ sock'[s].send_list = sock[s].send_list
    /\ sock'[s].accept_list = sock[s].accept_list
    /\ sock'[s].connect_ev = sock[s].connect_ev

\* C35: an internal event that is in a task's queue when isc_socket_cancel
\* empties the queue (the connect slot) it was sent for is still delivered;
\* its handler clears the pending bit, lets go of its reference and does no
\* more: no completion event, no request touched, no assertion failed; also
\* when a new request was posted between the cancel and the handler's run.
C35_StaleHandlerQuiet ==
    [][/\ cancels /\ taskq[1] # <<>> => ~aborted'
       /\ StaleRun => NothingDone(Head(taskq[1])[1])]_vars

\* the same when no request was posted in between: the handler finds the
\* queue, or the connect slot, as the cancel left it
C35_StaleHandlerQuietOnEmpty ==
    [][StaleRun /\ StaleEvent(Head(taskq[1])[1], Head(taskq[1])[2])
          => ~aborted' /\ NothingDone(Head(taskq[1])[1])]_vars

\* with a request posted in between the program is still running when the
\* handler is through
C35_StaleHandlerRuns ==
    [][cancels /\ taskq[1] # <<>> => ~aborted']_vars

(***************************************************************************)
(* Markers behind cancelled requests.  Task 1 posts receives and sends     *)
(* that have to wait, task 2 posts markers behind them, and task 1's       *)
(* requests are cancelled.  The watcher and the tasks are scheduled; the   *)
(* kernel reports the descriptor ready when it likes, or never.            *)
(***************************************************************************)
NextMark ==
    \/ nalloc = 0 /\ Create("tcp")
    \/ \E s \in TheSock : Few /\ Recv(s, 1, MaxLen, 0, NothingYet)
    \/ \E s \in TheSock : Few /\ Send(s, 1, MaxLen, NothingYet)
    \/ \E s \in TheSock, crash \in BOOLEAN : Few /\ RecvMark(s, 2, crash)
    \/ \E s \in TheSock, crash \in BOOLEAN : Few /\ SendMark(s, 2, crash)
    \/ \E s \in TheSock, how \in {{"RECV"}, {"SEND"}} : ~cancels /\ Cancel(s, 1, how)
    \/ Watcher
    \/ \E t \in Tasks : InternalRecv(t, IoBrief)
    \/ \E t \in Tasks : InternalSend(t, IoBrief)

ThreadsFair ==
    /\ WF_vars(WatcherReadMsg) /\ WF_vars(WatcherLoop)
    /\ \A t \in Tasks : /\ WF_vars(InternalRecv(t, IoBrief))
                        /\ WF_vars(InternalSend(t, IoBrief))

SpecMark == Init /\ [][NextMark]_vars /\ ThreadsFair

\* the same with a descriptor that is ready whenever the watcher selects
SpecMarkReady == SpecMark /\ \A i \in SockFds : SF_vars(ReadyScan(i))

\* request id is a marker and the first of its queue
MarkerAtHead(id) ==
    \E s \in Socks, dir \in Directions :
        /\ sock[s].magic /\ ~EMPTY(ListOf(sock[s], dir))
        /\ Head(ListOf(sock[s], dir)).id = id
        /\ MarkerIn(s, dir, id)

\* C36: a marker that has come to the head of its queue, for example because
\* isc_socket_cancel took away the requests in front of it, is completed in
\* the end when the watcher and the tasks are scheduled, whether or not the
\* descriptor ever becomes readable or writable.
C36_MarkerAtHeadCompletes ==
    \A id \in 1..MaxBusy : MarkerAtHead(id) ~> Completed(id)

\* it is completed when the descriptor does become ready
C36_MarkerCompletesWhenReady ==
    \A id \in 1..MaxBusy : MarkerAtHead(id) ~> (Completed(id) \/ aborted)

\* request id sits in a queue or in the connect slot of some socket
Waiting(id) ==
    \E s \in Socks :
        \/ Linked(sock[s].recv_list, id) \/ Linked(sock[s].send_list, id)
        \/ Linked(sock[s].accept_list, id) \/ Linked(sock[s].connect_ev, id)

\* C37: a request a posting call accepted gets at most one completion event,
\* and once that event was sent the request is in no queue and not in the
\* connect slot; whichever of the inline I/O, the internal handlers and
\* isc_socket_cancel sent it.
C37_CompletedOnce ==
    \A id \in DOMAIN posted :
        /\ TimesCompleted(id) <= 1
        /\ Completed(id) => ~Waiting(id)

\* one request completed from the queue by a handler and another one taken
\* from its queue by isc_socket_cancel
C37_Witness ==
    /\ cancels /\ ~aborted
    /\ \E i, j \in DOMAIN posted :
          /\ posted[i].queued /\ CompletedWith(i, "CANCELED")
          /\ posted[j].queued /\ CompletedWith(j, "SUCCESS")
          /\ ~Waiting(i) /\ ~Waiting(j)

\* C38: task references are balanced: a request that was queued (receive,
\* send, marker, accept, connect) took a reference to its task with
\* isc_task_attach, and its completion event is sent with
\* isc_task_sendanddetach, which lets go of it; a request completed inline
\* took none and its event is sent with isc_task_send.
C38_TaskRefsBalanced ==
    \A k \in DOMAIN log : log[k].detach <=> posted[log[k].id].queued

\* the same for every request but the markers, whose events are sent with
\* isc_task_send also when they were queued
C38_TaskRefsBalancedButMarkers ==
    [][\A k \in DOMAIN SentNow :
          LET id == SentNow[k].id
          IN  IF \E s \in Socks, dir \in Directions : MarkerIn(s, dir, id)
              THEN ~SentNow[k].detach
              ELSE SentNow[k].detach <=> posted'[id].queued]_vars

\* the errno values doio_recv has no case for
Unrecognised(e) ==
    /\ e # "OK" /\ ~SOFT_ERROR(e) /\ e # "ENOBUFS" /\ SohResult(e) = "SUCCESS"

\* fault injection: doio_recv returning DOIO_SOFT after the UNEXPECTED event
doio_recv_soft(S, dev, o) ==
    IF Unrecognised(o.errno)
    THEN [doio_recv(S, dev, o) EXCEPT !.ret = DOIO_SOFT]
    ELSE doio_recv(S, dev, o)

\* doio_recv with "return (DOIO_HARD)" in its last error branch, as doio_send
\* has it
doio_recv_hard(S, dev, o) ==
    IF Unrecognised(o.errno)
    THEN [doio_recv(S, dev, o) EXCEPT !.ret = DOIO_HARD]
    ELSE doio_recv(S, dev, o)

\* isc_socket_recv calling doio_recv_hard
isc_socket_recv_hard(S, id, task, length, minimum, o) ==
    LET dev == [allocate_socketevent(id, "RECVDONE") EXCEPT
                    !.minimum = IF S.type = "udp" THEN 1
                                ELSE IF minimum = 0 THEN length ELSE minimum,
                    !.length = length, !.sender = task]
        was_empty == EMPTY(S.recv_list)
        queue(S1, d) ==
            [S |-> [S1 EXCEPT !.recv_list = Append(@, [d EXCEPT !.attached = TRUE])],
             ev |-> <<>>, poke |-> was_empty]
    IN  IF ~was_empty THEN queue(S, dev) @@ [io |-> {}]
        ELSE IF S.recv_result # "SUCCESS" THEN
            send_recvdone_event(S, dev, S.recv_result) @@ [poke |-> FALSE, io |-> {}]
        ELSE
            LET r == doio_recv_hard(S, dev, o)
            IN  CASE r.ret = DOIO_SOFT -> queue(r.S, r.dev) @@ [io |-> {id}]
                  [] r.ret = DOIO_EOF ->
                        send_recvdone_event(r.S, dev, "EOF") @@ [poke |-> FALSE, io |-> {id}]
                  [] OTHER -> [S |-> r.S, ev |-> r.ev, poke |-> FALSE, io |-> {id}]

\* the loop of internal_recv calling doio_recv_hard
RECURSIVE recv_loop_hard(_, _, _, _)
recv_loop_hard(S, outs, ev, calls) ==
    IF EMPTY(S.recv_list) THEN [S |-> S, ev |-> ev, io |-> calls]
    ELSE
        LET dev == Head(S.recv_list)
        IN  IF dev.type = "RECVMARK" \/ S.recv_result # "SUCCESS" THEN
                LET r == send_recvdone_event(S, dev, S.recv_result)
                IN  recv_loop_hard(r.S, outs, ev \o r.ev, calls)
            ELSE
                LET r == doio_recv_hard(S, dev, Head(outs))
                IN  CASE r.ret = DOIO_SOFT ->
                            [S |-> r.S, ev |-> ev, io |-> calls \cup {dev.id}]
                      [] r.ret = DOIO_EOF ->
                            [S |-> [r.S EXCEPT !.recv_list = <<>>],
                             ev |-> ev \o EofCascade(r.S.recv_list),
                             io |-> calls \cup {dev.id}]
                      [] OTHER ->
                            recv_loop_hard(r.S, Tail(outs), ev \o r.ev,
                                           calls \cup {dev.id})

\* C39: whether doio_recv returns DOIO_SUCCESS or DOIO_HARD after the
\* UNEXPECTED event of an unrecognised errno cannot be observed: in every
\* state the program reaches, isc_socket_recv and the loop of internal_recv
\* leave the same socket (queues, sticky result), send the same completion
\* events and poke the watcher alike with either return code, whatever
\* recvmsg() answers.
C39_ReturnCodeUnobservable ==
    \A s \in Socks :
        sock[s].magic =>
            /\ \A t \in Tasks, m \in {0, 1}, o \in IoOutcomes :
                  isc_socket_recv_hard(sock[s], NextId, t, MaxLen, m, o)
                      = isc_socket_recv(sock[s], NextId, t, MaxLen, m, o)
            /\ \A outs \in [1..Len(sock[s].recv_list) -> IoOutcomes] :
                  LET a == recv_loop_hard(sock[s], outs, <<>>, {})
                      b == recv_loop(sock[s], outs, <<>>, {})
                  IN  a = b /\ EMPTY(a.S.recv_list) = EMPTY(b.S.recv_list)

\* recvmsg() answered a queued receive with an unrecognised errno, and the
\* loop of internal_recv went on to the receive behind it
C39_Witness ==
    \E i, j \in DOMAIN posted :
        /\ i < j /\ posted[i].dir = "recv" /\ posted[j].dir = "recv"
        /\ posted[i].queued /\ posted[j].queued
        /\ posted[i].sticky = "SUCCESS" /\ posted[j].sticky = "SUCCESS"
        /\ CompletedWith(i, "UNEXPECTED") /\ CompletedWith(j, "UNEXPECTED")

(***************************************************************************)
(* Letting go of a socket in use.  One task posts requests that wait on    *)
(* the first socket; its holders cancel everything and detach, the last of *)
(* them only with nothing queued, so that destroy() finds the socket as    *)
(* isc_socket_cancel(sock, NULL, all) left it.                             *)
(***************************************************************************)
NothingQueued(s) ==
    /\ EMPTY(sock[s].recv_list) /\ EMPTY(sock[s].send_list)
    /\ EMPTY(sock[s].accept_list) /\ sock[s].connect_ev = <<>>

\* the caller of isc_socket_detach is not the last holder, or it has
\* cancelled
MayDetach(s) ==
    \/ ext[s] > 1
    \/ NothingQueued(s) /\ (s \in TheSock => cancels)

NextGone ==
    \/ nalloc = 0 /\ Create("tcp")
    \/ \E s \in TheSock : Attach(s)
    \/ \E s \in Socks : MayDetach(s) /\ Detach(s)
    \/ \E s \in Socks, oob \in BOOLEAN : Destroy(s, oob)
    \/ \E s \in TheSock : posted = <<>> /\ Listen(s)
    \/ \E s \in TheSock, t \in OneTask :
          Few /\ Recv(s, t, MaxLen, 0, NothingYet)
    \/ \E s \in TheSock, t \in OneTask :
          Few /\ Send(s, t, MaxLen, NothingYet)
    \/ \E s \in TheSock, t \in OneTask :
          Few /\ Accept(s, t)
    \/ \E s \in TheSock, t \in OneTask :
          Few /\ Connect(s, t, "EINPROGRESS")
    \/ \E s \in TheSock : Cancel(s, NULL, CancelKinds)
    \/ Watcher
    \/ \E t \in OneTask : InternalRecv(t, IoBrief)
    \/ \E t \in OneTask : InternalSend(t, IoBrief)
    \/ \E t \in OneTask, e \in {"0", "EAGAIN"} : InternalAccept(t, e)
    \/ \E t \in OneTask, e \in {"0", "ECONNREFUSED"} : InternalConnect(t, e)
    \/ \E t \in OneTask : AcceptTail(t)
    \/ \E t \in OneTask : ConnectTail(t)

SpecGone == Init /\ [][NextGone]_vars

\* the last holder of the first socket has cancelled and detached
LetGo(s) == nalloc >= s /\ ext[s] = 0

\* C40: once the last holder has called isc_socket_cancel(sock, NULL, all)
\* and isc_socket_detach, the socket is destroyed once, by the detach or by
\* the handler of the last internal event in flight, with its queues and its
\* connect slot empty and no pending or connecting bit set (the INSISTs of
\* destroy() and free_socket() hold), and no handler runs on it after it was
\* freed; whatever the watcher dispatched in between.
C40_CleanDestroy ==
    \A s \in TheSock :
        LetGo(s) =>
            /\ ~aborted
            /\ NothingQueued(s)
            /\ ~sock[s].magic =>
                  /\ InQueue(s, "r") = 0 /\ InQueue(s, "w") = 0
                  /\ ~sock[s].pending_recv /\ ~sock[s].pending_send
                  /\ ~sock[s].pending_accept /\ ~sock[s].connecting

\* where the program did not abort, the socket that was let go is as the
\* claim says
C40_CleanDestroyUnlessAborted ==
    \A s \in TheSock :
        LetGo(s) /\ ~aborted =>
            /\ NothingQueued(s)
            /\ ~sock[s].magic =>
                  /\ InQueue(s, "r") = 0 /\ InQueue(s, "w") = 0
                  /\ ~sock[s].pending_recv /\ ~sock[s].pending_send
                  /\ ~sock[s].pending_accept /\ ~sock[s].connecting

==============================================================================
